---- MODULE Spec2Model ----
(***************************************************************************)
(* Rules engine of the territory game (GameEngine) and the private move    *)
(* simulation of the search AI (MinimaxAI.applyMove), as state machines.   *)
(* Coordinates are 0-based as in the source; a tile is addressed by        *)
(* <<x, y>>, the source's map.tiles[y][x].                                  *)
(***************************************************************************)
EXTENDS Integers, Sequences, FiniteSets, TLC

\* ------------------------------------------------------------- constants
BLANK == 0
MOUNTAIN == 1
STRONGHOLD == 2
CAPITAL == 3

\* owner 0 is neutral; winner null is modelled by the same "no player" value
NEUTRAL == 0
NoWinner == 0
\* a tile without a captureCost property (typeof captureCost !== 'number')
NoCost == -1

TurnsPerRound == 25

\* ---------------------------------------------------------------- bounds
\* nextTurn is taken only while turn < MaxTurn (bounds unit growth)
MaxTurn == 2
\* makeMove is called only while fewer than MaxMoves moves were accepted
MaxMoves == 3
\* the search AI is asked in the first MaxAITurn turns of games of at most
\* MaxAIMoves moves; it searches to depth MaxDepth at most, and the fault
\* that makes evaluate throw strikes at its MaxThrowAt-th call at the latest
MaxAITurn == 1
MaxAIMoves == 1
MaxDepth == 2
MaxThrowAt == 2
\* the long game: nextTurn is taken while turn < MaxLongTurn, and at most
\* MaxLongMoves moves are accepted, none before turn MovesFromTurn
MaxLongTurn == 26
MaxLongMoves == 2
MovesFromTurn == 25

\* ------------------------------------------------------------------ maps
Tile(type, owner, units) ==
    [type |-> type, owner |-> owner, units |-> units, captureCost |-> NoCost]

LockedStronghold(cost) ==
    [type |-> STRONGHOLD, owner |-> NEUTRAL, units |-> 0, captureCost |-> cost]

\* Maps handed to the constructor: MapRows(id)[y+1][x+1] is map.tiles[y][x].
\* Map 1: three players, a locked stronghold next to player 1's capital,
\* and a mountain.
\* Map 2: two players, a locked stronghold between them, and a mountain.
MapRows(id) ==
    IF id = 1 THEN
      << << Tile(CAPITAL, 1, 6), Tile(CAPITAL, 2, 2), Tile(BLANK, 2, 8) >>,
         << LockedStronghold(2), Tile(MOUNTAIN, NEUTRAL, 0), Tile(CAPITAL, 3, 2) >> >>
    ELSE
      << << Tile(CAPITAL, 1, 4), LockedStronghold(3), Tile(CAPITAL, 2, 3) >>,
         << Tile(BLANK, NEUTRAL, 0), Tile(MOUNTAIN, NEUTRAL, 0), Tile(BLANK, 2, 2) >> >>

MapCapitals(id) ==
    IF id = 1 THEN
      << [x |-> 0, y |-> 0, playerId |-> 1],
         [x |-> 1, y |-> 0, playerId |-> 2],
         [x |-> 2, y |-> 1, playerId |-> 3] >>
    ELSE
      << [x |-> 0, y |-> 0, playerId |-> 1],
         [x |-> 2, y |-> 0, playerId |-> 2] >>

MapPlayerCount(id) == Len(MapCapitals(id))

MapIds == {1, 2}

Height == Len(MapRows(1))
Width == Len(MapRows(1)[1])

Pos == (0 .. Width - 1) \X (0 .. Height - 1)

MapTiles(id) == [p \in Pos |-> MapRows(id)[p[2] + 1][p[1] + 1]]

\* ------------------------------------------------------------- variables
VARIABLES
    tiles,          \* map.tiles: <<x, y>> -> tile record
    capitals,       \* map.capitals: sequence of [x, y, playerId]
    playerCount,    \* this.playerCount
    currentPlayer,  \* this.currentPlayer
    turn,           \* this.turn
    round,          \* this.round
    winner,         \* this.winner (NoWinner = null)
    gameOver,       \* this.gameOver
    playerTiles,    \* this.playerTiles: player -> sequence of <<x, y>>
    sim,            \* the search AI's private copy of the game state
    lastCall,       \* the last engine call: arguments, locals and return value
    sent,           \* units sent so far into each neutral stronghold
    movesMade,      \* number of moves accepted so far
    mapId,          \* which map the constructor was given
    decision,       \* the last getDecision call on the present state, if any
    ui              \* GameCanvas: its React state, ref and pending timers

gameVars == << tiles, capitals, playerCount, currentPlayer, turn, round,
               winner, gameOver, playerTiles >>

vars == << tiles, capitals, playerCount, currentPlayer, turn, round,
           winner, gameOver, playerTiles, sim, lastCall, sent, movesMade, mapId,
           decision, ui >>

\* The engine's fields as one record, the argument of the method operators.
Engine ==
    [tiles |-> tiles, capitals |-> capitals, playerCount |-> playerCount,
     currentPlayer |-> currentPlayer, turn |-> turn, round |-> round,
     winner |-> winner, gameOver |-> gameOver, playerTiles |-> playerTiles]

\* --------------------------------------------------------------- helpers
InGrid(x, y) == x \in 0 .. Width - 1 /\ y \in 0 .. Height - 1

Abs(n) == IF n < 0 THEN -n ELSE n

Min(a, b) == IF a < b THEN a ELSE b

Max(a, b) == IF a > b THEN a ELSE b

\* Array.prototype.findIndex for a coordinate; 0 when absent (the source's -1)
FindIndex(list, x, y) ==
    IF \E i \in 1 .. Len(list) : list[i] = << x, y >>
    THEN CHOOSE i \in 1 .. Len(list) :
           /\ list[i] = << x, y >>
           /\ \A j \in 1 .. i - 1 : list[j] # << x, y >>
    ELSE 0

\* Array.prototype.splice(index, 1)
Splice(list, i) == [k \in 1 .. Len(list) - 1 |-> IF k < i THEN list[k] ELSE list[k + 1]]

\* row-major scan of the grid (for y ... for x ...), as a sequence of <<x, y>>
ScanOrder == [k \in 1 .. Width * Height |-> << (k - 1) % Width, (k - 1) \div Width >>]

\* ----------------------------------------------------------- constructor
\* GameEngine.initPlayerTiles
initPlayerTiles(ts, pc) ==
    [p \in 1 .. pc |->
        SelectSeq(ScanOrder, LAMBDA c : ts[c].owner = p)]

\* ---------------------------------------------------------------- engine
\* updateTileOwnership that forgets to remove the old owner's entry
updateTileOwnershipKeepsOld(s, x, y, oldOwner, newOwner) ==
    IF newOwner > 0 /\ newOwner <= s.playerCount
    THEN [s EXCEPT !.playerTiles[newOwner] = Append(@, << x, y >>)]
    ELSE s

\* GameEngine.updateTileOwnership: move <<x, y>> from oldOwner's index to
\* newOwner's index
updateTileOwnership(s, x, y, oldOwner, newOwner) ==
    LET removed ==
          IF oldOwner > 0 /\ oldOwner <= s.playerCount
          THEN LET index == FindIndex(s.playerTiles[oldOwner], x, y)
               IN IF index # 0
                  THEN [s.playerTiles EXCEPT ![oldOwner] = Splice(@, index)]
                  ELSE s.playerTiles
          ELSE s.playerTiles
        added ==
          IF newOwner > 0 /\ newOwner <= s.playerCount
          THEN [removed EXCEPT ![newOwner] = Append(@, << x, y >>)]
          ELSE removed
    IN [s EXCEPT !.playerTiles = added]

\* isValidMove without the mountain check
isValidMoveIntoMountain(s, fromX, fromY, toX, toY) ==
    IF ~InGrid(fromX, fromY) \/ ~InGrid(toX, toY) THEN FALSE
    ELSE IF s.tiles[<< fromX, fromY >>].owner # s.currentPlayer THEN FALSE
    ELSE IF s.tiles[<< fromX, fromY >>].units < 2 THEN FALSE
    ELSE IF Abs(toX - fromX) + Abs(toY - fromY) # 1 THEN FALSE
    ELSE TRUE

\* GameEngine.isValidMove
isValidMove(s, fromX, fromY, toX, toY) ==
    IF ~InGrid(fromX, fromY) \/ ~InGrid(toX, toY) THEN FALSE
    ELSE IF s.tiles[<< fromX, fromY >>].owner # s.currentPlayer THEN FALSE
    ELSE IF s.tiles[<< fromX, fromY >>].units < 2 THEN FALSE
    ELSE IF s.tiles[<< toX, toY >>].type = MOUNTAIN THEN FALSE
    ELSE IF Abs(toX - fromX) + Abs(toY - fromY) # 1 THEN FALSE
    ELSE TRUE

\* the halving of an earlier revision: floor(units / 2) + 1
takeoverUnitsFloorPlusOne(units) == units \div 2 + 1

\* units of a tile taken over in the cascade: halved, rounded up
takeoverUnits(units) ==
    IF units % 2 = 0 THEN units \div 2 ELSE units \div 2 + 1

\* the loop of GameEngine.takeoverPlayerTiles over the copied index
RECURSIVE takeoverLoop(_, _, _, _, _)
takeoverLoop(s, tilesToTakeover, i, defeatedPlayerId, conquerorId) ==
    IF i > Len(tilesToTakeover) THEN s
    ELSE LET c == tilesToTakeover[i]
             tile == s.tiles[c]
         IN IF tile.owner = defeatedPlayerId
            THEN LET taken ==
                       [tile EXCEPT
                          !.owner = conquerorId,
                          !.units = takeoverUnits(tile.units),
                          !.type = IF tile.type = CAPITAL THEN STRONGHOLD ELSE tile.type]
                     s1 == [s EXCEPT !.tiles[c] = taken]
                     s2 == updateTileOwnership(s1, c[1], c[2], defeatedPlayerId, conquerorId)
                 IN takeoverLoop(s2, tilesToTakeover, i + 1, defeatedPlayerId, conquerorId)
            ELSE takeoverLoop(s, tilesToTakeover, i + 1, defeatedPlayerId, conquerorId)

\* a takeover that hands over only the tile listed first in the index
takeoverPlayerTilesFirstOnly(s, defeatedPlayerId, conquerorId) ==
    takeoverLoop(s, SubSeq(s.playerTiles[defeatedPlayerId], 1, 1), 1,
                 defeatedPlayerId, conquerorId)

\* GameEngine.takeoverPlayerTiles
takeoverPlayerTiles(s, defeatedPlayerId, conquerorId) ==
    takeoverLoop(s, s.playerTiles[defeatedPlayerId], 1, defeatedPlayerId, conquerorId)

\* index in map.capitals of the first record of a player; 0 when there is none
CapitalRecord(caps, playerId) ==
    IF \E i \in 1 .. Len(caps) : caps[i].playerId = playerId
    THEN CHOOSE i \in 1 .. Len(caps) :
           /\ caps[i].playerId = playerId
           /\ \A j \in 1 .. i - 1 : caps[j].playerId # playerId
    ELSE 0

\* onCapitalCaptured that leaves the conqueror's previous capital a Capital
onCapitalCapturedKeepsOldCapital(s, defeatedPlayerId, newCapitalX, newCapitalY) ==
    LET s1 == takeoverPlayerTiles(s, defeatedPlayerId, s.currentPlayer)
        rec == CapitalRecord(s1.capitals, s1.currentPlayer)
        s2 == IF rec # 0
              THEN [s1 EXCEPT !.capitals[rec].x = newCapitalX,
                              !.capitals[rec].y = newCapitalY]
              ELSE s1
    IN [s2 EXCEPT
          !.tiles[<< newCapitalX, newCapitalY >>].type = CAPITAL,
          !.tiles[<< newCapitalX, newCapitalY >>].owner = s.currentPlayer]

\* onCapitalCaptured that demotes the captured tile, as an earlier revision
\* of the engine did, instead of making it the conqueror's capital
onCapitalCapturedDemotes(s, defeatedPlayerId, newCapitalX, newCapitalY) ==
    LET s1 == takeoverPlayerTiles(s, defeatedPlayerId, s.currentPlayer)
    IN [s1 EXCEPT
          !.tiles[<< newCapitalX, newCapitalY >>].type = STRONGHOLD,
          !.tiles[<< newCapitalX, newCapitalY >>].owner = s.currentPlayer]

\* GameEngine.onCapitalCaptured
onCapitalCaptured(s, defeatedPlayerId, newCapitalX, newCapitalY) ==
    LET s1 == takeoverPlayerTiles(s, defeatedPlayerId, s.currentPlayer)
        rec == CapitalRecord(s1.capitals, s1.currentPlayer)
        s2 == IF rec # 0
              THEN [s1 EXCEPT
                      !.tiles[<< s1.capitals[rec].x, s1.capitals[rec].y >>].type = STRONGHOLD,
                      !.capitals[rec].x = newCapitalX,
                      !.capitals[rec].y = newCapitalY]
              ELSE s1
    IN [s2 EXCEPT
          !.tiles[<< newCapitalX, newCapitalY >>].type = CAPITAL,
          !.tiles[<< newCapitalX, newCapitalY >>].owner = s.currentPlayer]

\* getRemainingPlayers that counts every player with a registered capital
\* tile owned by anyone
getRemainingPlayersAnyOwner(s) ==
    LET alive == SelectSeq(s.capitals, LAMBDA c : s.tiles[<< c.x, c.y >>].owner # NEUTRAL)
    IN [i \in 1 .. Len(alive) |-> alive[i].playerId]

\* GameEngine.getRemainingPlayers: the players owning their registered capital
getRemainingPlayers(s) ==
    LET alive == SelectSeq(s.capitals, LAMBDA c : s.tiles[<< c.x, c.y >>].owner = c.playerId)
    IN [i \in 1 .. Len(alive) |-> alive[i].playerId]

\* a win check that also hands the turn to the next player
checkWinConditionPassesTurn(s) ==
    [s EXCEPT !.currentPlayer = (@ % s.playerCount) + 1]

\* GameEngine.checkWinCondition
checkWinCondition(s) ==
    LET lost(c) == /\ s.tiles[<< c.x, c.y >>].owner # c.playerId
                   /\ s.tiles[<< c.x, c.y >>].owner # NEUTRAL
        remainingPlayers == getRemainingPlayers(s)
    IN IF (\E i \in 1 .. Len(s.capitals) : lost(s.capitals[i]))
          /\ Len(remainingPlayers) = 1
       THEN [s EXCEPT !.winner = remainingPlayers[1], !.gameOver = TRUE]
       ELSE s

\* a 'half' move that rounds the half up instead of down
moveUnitsOfRoundsUp(moveType, units) ==
    IF moveType = "half" THEN (units + 1) \div 2 ELSE units - 1

\* units sent by a move of the given type from a tile holding `units`
moveUnitsOf(moveType, units) ==
    IF moveType = "half" THEN units \div 2 ELSE units - 1

\* an unlock that garrisons all the units sent, not only those left over
resolveNeutralKeepsAll(s, toX, toY, moveUnits) ==
    LET to == << toX, toY >>
        toTile == s.tiles[to]
    IN IF toTile.type = STRONGHOLD /\ toTile.captureCost # NoCost
       THEN LET oldCost == toTile.captureCost
                usedForUnlock == Min(moveUnits, oldCost)
                s1 == [s EXCEPT !.tiles[to].captureCost = oldCost - usedForUnlock]
            IN IF s1.tiles[to].captureCost <= 0
               THEN updateTileOwnership(
                      [s1 EXCEPT !.tiles[to].owner = s.currentPlayer,
                                 !.tiles[to].units = moveUnits],
                      toX, toY, NEUTRAL, s.currentPlayer)
               ELSE s1
       ELSE updateTileOwnership(
              [s EXCEPT !.tiles[to].owner = s.currentPlayer,
                        !.tiles[to].units = moveUnits],
              toX, toY, NEUTRAL, s.currentPlayer)

\* neutral target of makeMove
resolveNeutral(s, toX, toY, moveUnits) ==
    LET to == << toX, toY >>
        toTile == s.tiles[to]
    IN IF toTile.type = STRONGHOLD /\ toTile.captureCost # NoCost
       THEN LET oldCost == toTile.captureCost
                usedForUnlock == Min(moveUnits, oldCost)
                remainingAfterUnlock == moveUnits - usedForUnlock
                s1 == [s EXCEPT !.tiles[to].captureCost = oldCost - usedForUnlock]
            IN IF s1.tiles[to].captureCost <= 0
               THEN updateTileOwnership(
                      [s1 EXCEPT !.tiles[to].owner = s.currentPlayer,
                                 !.tiles[to].units = remainingAfterUnlock],
                      toX, toY, NEUTRAL, s.currentPlayer)
               ELSE s1
       ELSE updateTileOwnership(
              [s EXCEPT !.tiles[to].owner = s.currentPlayer,
                        !.tiles[to].units = moveUnits],
              toX, toY, NEUTRAL, s.currentPlayer)

\* a capture rule that lets a tie capture (result >= 0)
capturesOnTie(result) == result >= 0

\* whether an attack with `result` = moveUnits - defender units captures
captures(result) == result >= 1

\* a failed attack that stores the battle result with the wrong sign
failedAttackUnitsSignSlip(oldUnits, moveUnits) == moveUnits - oldUnits

\* units left to the defender of a failed attack
failedAttackUnits(oldUnits, moveUnits) == Max(0, oldUnits - moveUnits)

\* enemy target of makeMove: battle
resolveEnemy(s, toX, toY, moveUnits) ==
    LET to == << toX, toY >>
        toTile == s.tiles[to]
        oldToOwner == toTile.owner
        result == moveUnits - toTile.units
        wasCapital == toTile.type = CAPITAL
        failed == [s EXCEPT !.tiles[to].units = failedAttackUnits(toTile.units, moveUnits)]
        won == [s EXCEPT !.tiles[to].owner = s.currentPlayer,
                         !.tiles[to].units = result]
    IN IF wasCapital
       THEN IF captures(result)
            THEN updateTileOwnership(onCapitalCaptured(won, oldToOwner, toX, toY),
                                     toX, toY, oldToOwner, s.currentPlayer)
            ELSE failed
       ELSE IF captures(result)
            THEN updateTileOwnership(won, toX, toY, oldToOwner, s.currentPlayer)
            ELSE failed

\* GameEngine.makeMove: [ret, state]; state = s whenever ret is FALSE
makeMove(s, fromX, fromY, toX, toY, moveType) ==
    IF s.gameOver THEN [ret |-> FALSE, state |-> s]
    ELSE IF ~isValidMove(s, fromX, fromY, toX, toY) THEN [ret |-> FALSE, state |-> s]
    ELSE
      LET from == << fromX, fromY >>
          to == << toX, toY >>
          moveUnits == moveUnitsOf(moveType, s.tiles[from].units)
      IN IF moveUnits < 1 THEN [ret |-> FALSE, state |-> s]
         ELSE
           LET left == s.tiles[from].units - moveUnits
               s1 == [s EXCEPT !.tiles[from].units = IF left < 1 THEN 1 ELSE left]
               toTile == s1.tiles[to]
               s2 == IF toTile.owner = NEUTRAL
                     THEN resolveNeutral(s1, toX, toY, moveUnits)
                     ELSE IF toTile.owner = s.currentPlayer
                     THEN [s1 EXCEPT !.tiles[to].units = @ + moveUnits]
                     ELSE resolveEnemy(s1, toX, toY, moveUnits)
           IN [ret |-> TRUE, state |-> checkWinCondition(s2)]

\* per-turn growth without the neutral-owner check
growUnitsPerTurnNeutralToo(s) ==
    [s EXCEPT !.tiles =
        [p \in Pos |->
           IF s.tiles[p].type \in {STRONGHOLD, CAPITAL}
           THEN [s.tiles[p] EXCEPT !.units = @ + 1]
           ELSE s.tiles[p]]]

\* GameEngine.growUnitsPerTurn: owned strongholds and capitals gain 1
growUnitsPerTurn(s) ==
    [s EXCEPT !.tiles =
        [p \in Pos |->
           IF s.tiles[p].owner # NEUTRAL /\ s.tiles[p].type \in {STRONGHOLD, CAPITAL}
           THEN [s.tiles[p] EXCEPT !.units = @ + 1]
           ELSE s.tiles[p]]]

\* per-round growth that also feeds strongholds and capitals
growUnitsPerRoundAllTypes(s) ==
    [s EXCEPT !.tiles =
        [p \in Pos |->
           IF s.tiles[p].owner # NEUTRAL
           THEN [s.tiles[p] EXCEPT !.units = @ + 1]
           ELSE s.tiles[p]]]

\* GameEngine.growUnitsPerRound: owned blank tiles gain 1
growUnitsPerRound(s) ==
    [s EXCEPT !.tiles =
        [p \in Pos |->
           IF s.tiles[p].owner # NEUTRAL /\ s.tiles[p].type = BLANK
           THEN [s.tiles[p] EXCEPT !.units = @ + 1]
           ELSE s.tiles[p]]]

\* nextTurn that counts a turn on every call, not only when the player wraps
nextTurnCountsEveryCall(s) ==
    IF s.gameOver THEN s
    ELSE IF s.currentPlayer + 1 > s.playerCount
    THEN growUnitsPerTurn([s EXCEPT !.currentPlayer = 1, !.turn = @ + 1])
    ELSE [s EXCEPT !.currentPlayer = @ + 1, !.turn = @ + 1]

\* nextTurn without the guard on gameOver
nextTurnAfterGameOver(s) ==
    IF s.currentPlayer + 1 > s.playerCount
    THEN growUnitsPerTurn([s EXCEPT !.currentPlayer = 1, !.turn = @ + 1])
    ELSE [s EXCEPT !.currentPlayer = @ + 1]

\* GameEngine.nextTurn
nextTurn(s) ==
    IF s.gameOver THEN s
    ELSE IF s.currentPlayer + 1 > s.playerCount
    THEN LET s1 == [s EXCEPT !.currentPlayer = 1, !.turn = @ + 1]
             s2 == IF (s1.turn - 1) % TurnsPerRound = 0 /\ s1.turn > 1
                   THEN [s1 EXCEPT !.round = @ + 1] ELSE s1
             s3 == IF (s2.turn - 1) % TurnsPerRound = 0
                   THEN growUnitsPerRound(s2) ELSE s2
         IN growUnitsPerTurn(s3)
    ELSE [s EXCEPT !.currentPlayer = @ + 1]

\* ------------------------------------------------- search AI's simulation
\* MinimaxAI.deepCloneState: a fresh copy of every field of the state
deepCloneState(g) ==
    [tiles |-> [p \in Pos |->
                  CHOOSE copy \in {[type |-> tile.type, owner |-> tile.owner,
                                    units |-> tile.units,
                                    captureCost |-> tile.captureCost] :
                                      tile \in {g.tiles[p]}} : TRUE],
     capitals |-> [i \in 1 .. Len(g.capitals) |->
                     [x |-> g.capitals[i].x, y |-> g.capitals[i].y,
                      playerId |-> g.capitals[i].playerId]],
     playerCount |-> g.playerCount,
     currentPlayer |-> g.currentPlayer,
     turn |-> g.turn,
     round |-> g.round,
     winner |-> g.winner,
     gameOver |-> g.gameOver,
     playerTiles |-> [p \in DOMAIN g.playerTiles |->
                        [i \in 1 .. Len(g.playerTiles[p]) |-> g.playerTiles[p][i]]]]

\* a simulated updateTileOwnership that leaves the old owner's entry in place
simUpdateTileOwnershipKeepsOld(g, x, y, oldOwner, newOwner) ==
    IF newOwner > 0 /\ newOwner \in DOMAIN g.playerTiles
    THEN [g EXCEPT !.playerTiles[newOwner] = Append(@, << x, y >>)]
    ELSE g

\* MinimaxAI.updateTileOwnership (on a simulated state)
simUpdateTileOwnership(g, x, y, oldOwner, newOwner) ==
    LET removed ==
          IF oldOwner > 0 /\ oldOwner \in DOMAIN g.playerTiles
          THEN LET index == FindIndex(g.playerTiles[oldOwner], x, y)
               IN IF index # 0
                  THEN [g.playerTiles EXCEPT ![oldOwner] = Splice(@, index)]
                  ELSE g.playerTiles
          ELSE g.playerTiles
        added ==
          IF newOwner > 0
          THEN IF newOwner \in DOMAIN removed
               THEN [removed EXCEPT ![newOwner] = Append(@, << x, y >>)]
               ELSE [p \in DOMAIN removed \cup {newOwner} |->
                       IF p = newOwner THEN << << x, y >> >> ELSE removed[p]]
          ELSE removed
    IN [g EXCEPT !.playerTiles = added]

\* MinimaxAI.checkWinCondition: one player left with tiles in the index
simCheckWinCondition(g, playerId) ==
    LET alive == {id \in 1 .. g.playerCount :
                    id \in DOMAIN g.playerTiles /\ Len(g.playerTiles[id]) > 0}
    IN IF Cardinality(alive) = 1
       THEN [g EXCEPT !.gameOver = TRUE,
                      !.winner = CHOOSE id \in alive : \A o \in alive : o <= id]
       ELSE g

\* MinimaxAI.applyMove
applyMove(g, move, playerId) ==
    LET from == << move.fromX, move.fromY >>
        to == << move.toX, move.toY >>
        moveUnits == IF move.moveType = "half"
                     THEN g.tiles[from].units \div 2
                     ELSE g.tiles[from].units - 1
        g1 == [g EXCEPT !.tiles[from].units = @ - moveUnits]
        toTile == g1.tiles[to]
        g2 ==
          IF toTile.owner = playerId
          THEN [g1 EXCEPT !.tiles[to].units = @ + moveUnits]
          ELSE IF toTile.owner = NEUTRAL
          THEN IF toTile.type = STRONGHOLD /\ toTile.captureCost # NoCost
                  /\ toTile.captureCost > 0
               THEN LET usedForUnlock == Min(moveUnits, toTile.captureCost)
                        remainingAfterUnlock == moveUnits - usedForUnlock
                        g1a == [g1 EXCEPT !.tiles[to].captureCost = @ - usedForUnlock]
                    IN IF g1a.tiles[to].captureCost <= 0
                       THEN simUpdateTileOwnership(
                              [g1a EXCEPT !.tiles[to].owner = playerId,
                                          !.tiles[to].units = remainingAfterUnlock],
                              move.toX, move.toY, NEUTRAL, playerId)
                       ELSE g1a
               ELSE simUpdateTileOwnership(
                      [g1 EXCEPT !.tiles[to].owner = playerId,
                                 !.tiles[to].units = moveUnits],
                      move.toX, move.toY, NEUTRAL, playerId)
          ELSE LET result == moveUnits - toTile.units
                   wasCapital == toTile.type = CAPITAL
               IN IF result >= 1
                  THEN simUpdateTileOwnership(
                         [g1 EXCEPT !.tiles[to].owner = playerId,
                                    !.tiles[to].units = result,
                                    !.tiles[to].type =
                                       IF wasCapital THEN STRONGHOLD ELSE @],
                         move.toX, move.toY, toTile.owner, playerId)
                  ELSE [g1 EXCEPT !.tiles[to].units = Max(0, toTile.units - moveUnits)]
    IN simCheckWinCondition(g2, playerId)

MoveTypes == {"half", "max"}

\* the four directions in the order getAllPossibleMoves tries them
Directions == << << 0, -1 >>, << 0, 1 >>, << -1, 0 >>, << 1, 0 >> >>

\* the moves of one tile, without the mountain check
tileMovesIntoMountain(g, c) ==
    LET ok == SelectSeq(Directions, LAMBDA d : InGrid(c[1] + d[1], c[2] + d[2]))
    IN [k \in 1 .. 2 * Len(ok) |->
          [fromX |-> c[1], fromY |-> c[2],
           toX |-> c[1] + ok[(k + 1) \div 2][1],
           toY |-> c[2] + ok[(k + 1) \div 2][2],
           moveType |-> IF k % 2 = 1 THEN "half" ELSE "max"]]

\* the moves getAllPossibleMoves emits for one tile: 'half' then 'max'
\* toward each in-bounds neighbour that is not a mountain
tileMoves(g, c) ==
    LET ok == SelectSeq(Directions,
                LAMBDA d : /\ InGrid(c[1] + d[1], c[2] + d[2])
                           /\ g.tiles[<< c[1] + d[1], c[2] + d[2] >>].type # MOUNTAIN)
    IN [k \in 1 .. 2 * Len(ok) |->
          [fromX |-> c[1], fromY |-> c[2],
           toX |-> c[1] + ok[(k + 1) \div 2][1],
           toY |-> c[2] + ok[(k + 1) \div 2][2],
           moveType |-> IF k % 2 = 1 THEN "half" ELSE "max"]]

\* the loop of getAllPossibleMoves over the player's index
RECURSIVE movesLoop(_, _, _)
movesLoop(g, ownTiles, i) ==
    IF i > Len(ownTiles) THEN << >>
    ELSE (IF g.tiles[ownTiles[i]].units < 2 THEN << >> ELSE tileMoves(g, ownTiles[i]))
           \o movesLoop(g, ownTiles, i + 1)

\* MinimaxAI.getAllPossibleMoves
getAllPossibleMoves(g, playerId) ==
    movesLoop(g, IF playerId \in DOMAIN g.playerTiles
                 THEN g.playerTiles[playerId] ELSE << >>, 1)

\* ------------------------------------------------------ search AI: search
\* null, the "no move" a search or a decision returns
NoMove == [fromX |-> -1, fromY |-> -1, toX |-> -1, toY |-> -1, moveType |-> "none"]

\* scores of a decided game, and the range evaluate clamps a heuristic to
WinScore == 1000000
ScoreCap == 10000
\* JavaScript's Infinity, above every score
Infinity == 10000000
\* limitMoves treats a stack as large from this many units
LargeArmyMinUnits == 30

RECURSIVE SumUnitsAt(_, _, _)
SumUnitsAt(g, list, i) ==
    IF i > Len(list) THEN 0 ELSE g.tiles[list[i]].units + SumUnitsAt(g, list, i + 1)

\* the values the heuristic part of evaluate is drawn from, and the classes
\* of states that share a value
HeuristicScores == {-1, 0, 1}
Digests == {0, 1, 2}

\* the class of a state: a number computed from the grid alone
stateDigest(g) ==
    (SumUnitsAt(g, ScanOrder, 1)
       + Cardinality({c \in Pos : g.tiles[c].owner # NEUTRAL})) % Cardinality(Digests)

\* evaluate that returns the weighted sum as it is, without the clamp
evaluateUnclamped(g, ai) ==
    IF g.gameOver
    THEN IF g.winner = ai.playerId THEN WinScore
         ELSE IF g.winner # NoWinner THEN -WinScore
         ELSE 0
    ELSE ai.scores[stateDigest(g)]

\* MinimaxAI.evaluate: exact for a decided game; otherwise the weighted,
\* clamped sum of four heuristic terms, which depends on the state alone and
\* is taken here from the table ai.scores
evaluate(g, ai) ==
    IF g.gameOver
    THEN IF g.winner = ai.playerId THEN WinScore
         ELSE IF g.winner # NoWinner THEN -WinScore
         ELSE 0
    ELSE Max(-ScoreCap, Min(ScoreCap, ai.scores[stateDigest(g)]))

\* MinimaxAI.getMostThreateningEnemy: 0 when no enemy has tiles; the threat
\* totalUnits * tiles / (distance + 1) is compared as a fraction
getMostThreateningEnemy(g, myId) ==
    LET enemies == {id \in 1 .. g.playerCount :
                      /\ id # myId
                      /\ id \in DOMAIN g.playerTiles
                      /\ Len(g.playerTiles[id]) > 0}
        rec == CapitalRecord(g.capitals, myId)
        capIdx(id) == SelectSeq(g.playerTiles[id], LAMBDA c : g.tiles[c].type = CAPITAL)
        num(id) == SumUnitsAt(g, g.playerTiles[id], 1) * Len(g.playerTiles[id])
        den(id) == IF rec # 0 /\ Len(capIdx(id)) > 0
                   THEN Abs(capIdx(id)[1][1] - g.capitals[rec].x)
                          + Abs(capIdx(id)[1][2] - g.capitals[rec].y) + 1
                   ELSE 1
        above(a, b) == num(a) * den(b) > num(b) * den(a)
    IN IF enemies = {} THEN 0
       ELSE CHOOSE id \in enemies :
              \A o \in enemies \ {id} :
                 above(id, o) \/ (~above(o, id) /\ id < o)

\* getNextEnemyPlayer that takes the next player in turn order
getNextEnemyPlayerInTurn(g, ai) == (ai.playerId % g.playerCount) + 1

\* MinimaxAI.getNextEnemyPlayer
getNextEnemyPlayer(g, ai) ==
    LET threatEnemyId == getMostThreateningEnemy(g, ai.playerId)
    IN IF threatEnemyId # 0 THEN threatEnemyId
       ELSE (ai.playerId % g.playerCount) + 1

\* MinimaxAI.scoreMove
scoreMove(move, g, playerId) ==
    LET fromTile == g.tiles[<< move.fromX, move.fromY >>]
        toTile == g.tiles[<< move.toX, move.toY >>]
        moveUnits == IF move.moveType = "half"
                     THEN fromTile.units \div 2 ELSE fromTile.units - 1
        attack == IF toTile.owner # playerId /\ toTile.owner > 0
                  THEN (IF toTile.type = CAPITAL THEN 1000
                        ELSE IF toTile.type = STRONGHOLD THEN 500 ELSE 100)
                       + (IF moveUnits > toTile.units
                          THEN (moveUnits - toTile.units) * 10 ELSE 0)
                  ELSE 0
        unlock == IF toTile.owner = NEUTRAL /\ toTile.type = STRONGHOLD THEN 300 ELSE 0
        expand == IF toTile.owner = NEUTRAL /\ toTile.type = BLANK THEN 50 ELSE 0
    IN attack + unlock + expand + moveUnits * 5

\* limitMoves that returns every candidate
limitMovesUncapped(moves, g, playerId, maxBranches) == moves

\* limitMoves that keeps the first maxBranches moves in generation order
limitMovesUnsorted(moves, g, playerId, maxBranches) ==
    IF Len(moves) <= maxBranches THEN moves ELSE SubSeq(moves, 1, maxBranches)

\* MinimaxAI.limitMoves: all the moves when there are at most maxBranches,
\* else the maxBranches best by score (large stacks count 1.5 times), ties
\* in generation order; scores are doubled to stay whole
limitMoves(moves, g, playerId, maxBranches) ==
    IF Len(moves) <= maxBranches THEN moves
    ELSE
      LET ownTiles == IF playerId \in DOMAIN g.playerTiles
                      THEN g.playerTiles[playerId] ELSE << >>
          sum == SumUnitsAt(g, ownTiles, 1)
          count == Max(Len(ownTiles), 1)
          isLargeArmy(m) ==
             LET units == g.tiles[<< m.fromX, m.fromY >>].units
             IN units * 2 * count >= 3 * sum /\ units >= LargeArmyMinUnits
          score(i) == IF isLargeArmy(moves[i])
                      THEN 3 * scoreMove(moves[i], g, playerId)
                      ELSE 2 * scoreMove(moves[i], g, playerId)
          before(i, j) == score(i) > score(j) \/ (score(i) = score(j) /\ i < j)
          at(k) == CHOOSE i \in 1 .. Len(moves) :
                     Cardinality({j \in 1 .. Len(moves) : before(j, i)}) = k - 1
      IN [k \in 1 .. maxBranches |-> moves[at(k)]]

\* the parts of a clone made by deepCloneState that are the very objects of
\* the state it was given: none, every tile, list and record is built anew
cloneSharesTiles == {"tiles"}

cloneShares == {}

\* index entries of a clone that carry the tile objects of the state cloned
cloneEntryGridOfOriginal == "original"

\* the grid whose tile objects the index entries built by deepCloneState
\* carry: newMap.tiles[y][x], the clone's own
cloneEntryGrid == "clone"

\* the tile read through the entry for c in player p's index of the state g
\* that simulateMove made from `original`: an entry deepCloneState built
\* carries a tile of cloneEntryGrid, an entry updateTileOwnership pushed
\* carries gameState.map.tiles[y][x] of the simulated state
entryTile(original, g, p, c) ==
    IF /\ p \in DOMAIN original.playerTiles
       /\ \E i \in 1 .. Len(original.playerTiles[p]) : original.playerTiles[p][i] = c
       /\ cloneEntryGrid # "clone"
    THEN original.tiles[c]
    ELSE g.tiles[c]

\* the state a caller holds after code wrote to a clone of it
seenThrough(g, clone) ==
    [g EXCEPT !.tiles = IF "tiles" \in cloneShares THEN clone.tiles ELSE @,
              !.capitals = IF "capitals" \in cloneShares THEN clone.capitals ELSE @,
              !.playerTiles = IF "playerTiles" \in cloneShares
                              THEN clone.playerTiles ELSE @]

\* MinimaxAI.simulateMove
simulateMove(g, move, playerId) == applyMove(deepCloneState(g), move, playerId)

\* a cutoff that fires one point too early
cutoffEarly(alpha, beta) == beta <= alpha + 1

\* the alpha-beta cutoff test
cutoff(alpha, beta) == beta <= alpha

\* what a search has done so far: evaluate calls made, simulateMove calls
\* made, the deepest level of recursion entered below the root call, and for
\* every minimizing ply the state it was given and the player whose moves it
\* explored, and every state simulateMove returned with the state it was
\* made from
NoLog == [evals |-> 0, sims |-> 0, deep |-> 0, plies |-> {}, made |-> {}]

\* a leaf of the search: evaluate, which the run ai.throwAt makes throw on
\* its throwAt-th call
searchLeaf(g, ai, n) ==
    IF n.evals + 1 = ai.throwAt
    THEN [thrown |-> TRUE, score |-> 0, move |-> NoMove,
          n |-> [n EXCEPT !.evals = @ + 1], input |-> g]
    ELSE [thrown |-> FALSE, score |-> evaluate(g, ai), move |-> NoMove,
          n |-> [n EXCEPT !.evals = @ + 1], input |-> g]

\* the only element of a one-element set
The(S) == CHOOSE x \in S : TRUE

\* MinimaxAI.minimax and its loop over the limited moves. A result holds the
\* score and move returned (or thrown), the log n of the search so far, and
\* the state passed in as the caller sees it afterwards.
RECURSIVE minimax(_, _, _, _, _, _, _)
RECURSIVE minimaxLoop(_, _, _, _, _, _, _, _, _, _, _, _)
RECURSIVE minimaxStep(_, _, _, _, _, _, _, _, _, _, _, _, _)

\* the body of the loop once the recursive call for move i has returned
minimaxStep(g, limitedMoves, i, depth, alpha, beta, maximizing, currentPlayer_, ai, bestScore, bestMove, move, result) ==
    LET g1 == seenThrough(g, result.input)
        score == result.score
        better == IF maximizing THEN score > bestScore ELSE score < bestScore
        newBest == IF better THEN score ELSE bestScore
        newMove == IF better THEN move ELSE bestMove
        newAlpha == IF maximizing THEN Max(alpha, score) ELSE alpha
        newBeta == IF maximizing THEN beta ELSE Min(beta, score)
    IN IF result.thrown
       THEN [thrown |-> TRUE, score |-> 0, move |-> NoMove, n |-> result.n, input |-> g1]
       ELSE IF cutoff(newAlpha, newBeta)
       THEN [thrown |-> FALSE, score |-> newBest, move |-> newMove,
             n |-> result.n, input |-> g1]
       ELSE The({minimaxLoop(gNext, limitedMoves, i + 1, depth, a, b, maximizing,
                             currentPlayer_, ai, result.n, best, bm) :
                   gNext \in {g1}, a \in {newAlpha}, b \in {newBeta},
                   best \in {newBest}, bm \in {newMove}})

minimaxLoop(g, limitedMoves, i, depth, alpha, beta, maximizing, currentPlayer_, ai, n, bestScore, bestMove) ==
    IF i > Len(limitedMoves)
    THEN [thrown |-> FALSE, score |-> bestScore, move |-> bestMove, n |-> n, input |-> g]
    ELSE The({minimaxStep(g, limitedMoves, i, depth, alpha, beta, maximizing,
                          currentPlayer_, ai, bestScore, bestMove,
                          limitedMoves[i], result) :
                result \in {minimax(newState, depth - 1, alpha, beta, ~maximizing, ai,
                                    [n EXCEPT !.sims = @ + 1,
                                              !.deep = Max(@, ai.maxDepth - depth + 1),
                                              !.made = @ \cup {[from |-> g,
                                                                state |-> newState]}]) :
                             newState \in {simulateMove(g, limitedMoves[i], currentPlayer_)}}})

minimax(g, depth, alpha, beta, maximizing, ai, n) ==
    IF depth = 0 \/ g.gameOver THEN searchLeaf(g, ai, n)
    ELSE The({IF Len(limitedMoves) = 0 THEN searchLeaf(g, ai, entered)
              ELSE minimaxLoop(g, limitedMoves, 1, depth, alpha, beta, maximizing,
                               currentPlayer_, ai, entered,
                               IF maximizing THEN -Infinity ELSE Infinity, NoMove) :
                currentPlayer_ \in {IF maximizing THEN ai.playerId
                                    ELSE getNextEnemyPlayer(g, ai)},
                limitedMoves \in {limitMoves(getAllPossibleMoves(g, cp), g, cp,
                                             ai.maxBranches) :
                                    cp \in {IF maximizing THEN ai.playerId
                                            ELSE getNextEnemyPlayer(g, ai)}},
                entered \in {IF maximizing THEN n
                             ELSE [n EXCEPT !.plies = @ \cup
                                     {[state |-> g,
                                       player |-> getNextEnemyPlayer(g, ai)]}]}})

\* a random choice that checks neither the units of the source nor the target
randomDecisionsAnyUnits(g) ==
    LET own == IF g.currentPlayer \in DOMAIN g.playerTiles
               THEN g.playerTiles[g.currentPlayer] ELSE << >>
    IN IF Len(own) = 0 THEN {NoMove}
       ELSE {[fromX |-> own[i][1], fromY |-> own[i][2],
              toX |-> own[i][1] + d[1], toY |-> own[i][2] + d[2],
              moveType |-> moveType] :
                i \in 1 .. Len(own),
                d \in {Directions[k] : k \in 1 .. Len(Directions)},
                moveType \in MoveTypes}

\* RandomAI.getDecision: the moves Math.random can select, or null
randomDecisions(g) ==
    LET own == IF g.currentPlayer \in DOMAIN g.playerTiles
               THEN g.playerTiles[g.currentPlayer] ELSE << >>
        ownTiles == SelectSeq(own, LAMBDA c : g.tiles[c].units >= 2
                                              /\ g.tiles[c].type # MOUNTAIN)
        targets(c) == SelectSeq(Directions,
                        LAMBDA d : /\ InGrid(c[1] + d[1], c[2] + d[2])
                                   /\ g.tiles[<< c[1] + d[1], c[2] + d[2] >>].type # MOUNTAIN)
    IN IF Len(ownTiles) = 0 THEN {NoMove}
       ELSE UNION {
              IF Len(targets(ownTiles[i])) = 0 THEN {NoMove}
              ELSE {[fromX |-> ownTiles[i][1], fromY |-> ownTiles[i][2],
                     toX |-> ownTiles[i][1] + targets(ownTiles[i])[k][1],
                     toY |-> ownTiles[i][2] + targets(ownTiles[i])[k][2],
                     moveType |-> moveType] :
                       k \in 1 .. Len(targets(ownTiles[i])), moveType \in MoveTypes}
              : i \in 1 .. Len(ownTiles)}

\* getDecision without the try/catch around the search
getDecisionUnguarded(g, ai) ==
    UNION {
       IF bestMove.thrown
       THEN {[ret |-> NoMove, raised |-> TRUE, fellBack |-> FALSE, search |-> bestMove]}
       ELSE IF bestMove.move # NoMove
       THEN {[ret |-> bestMove.move, raised |-> FALSE, fellBack |-> FALSE,
              search |-> bestMove]}
       ELSE {[ret |-> r, raised |-> FALSE, fellBack |-> TRUE, search |-> bestMove] :
                r \in randomDecisions(bestMove.input)}
       : bestMove \in {minimax(g, ai.maxDepth, -Infinity, Infinity, TRUE, ai, NoLog)}}

\* MinimaxAI.getDecision: the possible outcomes of a call. ret is the move
\* returned, raised tells whether an exception left the call, fellBack
\* whether the RandomAI helper decided, search is the result of minimax.
getDecision(g, ai) ==
    IF ai.maxDepth = 0
    THEN {[ret |-> r, raised |-> FALSE, fellBack |-> TRUE,
           search |-> [thrown |-> FALSE, score |-> 0, move |-> NoMove, n |-> NoLog,
                       input |-> g]] : r \in randomDecisions(g)}
    ELSE
      UNION {
         IF ~bestMove.thrown /\ bestMove.move # NoMove
         THEN {[ret |-> bestMove.move, raised |-> FALSE, fellBack |-> FALSE,
                search |-> bestMove]}
         ELSE {[ret |-> r, raised |-> FALSE, fellBack |-> TRUE, search |-> bestMove] :
                  r \in randomDecisions(bestMove.input)}
         : bestMove \in {minimax(g, ai.maxDepth, -Infinity, Infinity, TRUE, ai, NoLog)}}

\* ----------------------------------------------------------------- calls
\* branch caps the search AI is built with (10 is the default)
BranchCaps == {1, 2, 10}

\* what the constructor falls back to for a missing or falsy option
DefaultMaxDepth == 2
DefaultMaxBranches == 10

\* new MinimaxAI(playerId, options): options.maxDepth || 2 and
\* options.maxBranches || 10, so an option of 0 gives the default. scores and
\* throwAt are the heuristic table and the fault of the run; the options
\* asked for are kept beside the fields they produced.
MinimaxAI(playerId, options) ==
    [playerId |-> playerId,
     maxDepth |-> IF options.maxDepth = 0 THEN DefaultMaxDepth ELSE options.maxDepth,
     maxBranches |-> IF options.maxBranches = 0 THEN DefaultMaxBranches
                     ELSE options.maxBranches,
     scores |-> options.scores, throwAt |-> options.throwAt,
     options |-> [maxDepth |-> options.maxDepth, maxBranches |-> options.maxBranches]]

\* the search AIs asked for a decision for player p: every depth from 0,
\* branch cap and heuristic table without a fault, and one table with a fault
AIConfigs(p) ==
    {MinimaxAI(p, [maxDepth |-> depth, maxBranches |-> cap, scores |-> t,
                   throwAt |-> 0]) :
        depth \in 0 .. MaxDepth, cap \in BranchCaps, t \in [Digests -> HeuristicScores]}
    \cup
    {MinimaxAI(p, [maxDepth |-> depth, maxBranches |-> cap,
                   scores |-> [d \in Digests |-> 0], throwAt |-> n]) :
        depth \in 1 .. MaxDepth, cap \in BranchCaps, n \in 1 .. MaxThrowAt}

NoDecision ==
    [op |-> "none",
     ai |-> [playerId |-> NEUTRAL, maxDepth |-> 0, maxBranches |-> 0,
             scores |-> [d \in Digests |-> 0], throwAt |-> 0],
     ret |-> NoMove, raised |-> FALSE, fellBack |-> FALSE, thrown |-> FALSE,
     score |-> 0, move |-> NoMove, n |-> 0]

\* arguments of makeMove calls: sources on and just off the grid, targets at
\* Manhattan distance 0, 1 and 2 from the source
Sources == Pos \cup { << -1, 0 >>, << 0, Height >> }
Deltas == { << 1, 0 >>, << -1, 0 >>, << 0, 1 >>, << 0, -1 >>,
            << 0, 0 >>, << 1, 1 >>, << 2, 0 >> }

NoTile == Tile(BLANK, NEUTRAL, 0)

Rejected ==
    [op |-> "makeMove", ret |-> FALSE, fromX |-> 0, fromY |-> 0, toX |-> 0,
     toY |-> 0, moveType |-> "max", moveUnits |-> 0, mover |-> NEUTRAL,
     fromTile |-> NoTile, toTile |-> NoTile]

TurnCall ==
    [op |-> "nextTurn", ret |-> FALSE, fromX |-> 0, fromY |-> 0, toX |-> 0,
     toY |-> 0, moveType |-> "max", moveUnits |-> 0, mover |-> NEUTRAL,
     fromTile |-> NoTile, toTile |-> NoTile]

Constructed == [TurnCall EXCEPT !.op = "new"]

\* null for selectedTile and mouseDownTile
NoSelection == << -1, -1 >>

\* GameCanvas when mounted: nothing selected, no button held, no timer
\* pending. gesture tells where the browser is within mousedown, mouseup,
\* click, and at where the button was released; gestures and movedSinceTurn count the gestures begun and the moves
\* accepted since the last nextTurn call.
Mounted ==
    [selectedTile |-> NoSelection, mouseDownTile |-> NoSelection,
     justDragged |-> FALSE, timers |-> 0, gesture |-> "idle", at |-> NoSelection,
     gestures |-> 0, movedSinceTurn |-> 0]

SetEngine(s) ==
    /\ tiles' = s.tiles
    /\ capitals' = s.capitals
    /\ playerCount' = s.playerCount
    /\ currentPlayer' = s.currentPlayer
    /\ turn' = s.turn
    /\ round' = s.round
    /\ winner' = s.winner
    /\ gameOver' = s.gameOver
    /\ playerTiles' = s.playerTiles

\* new GameEngine(map, playerCount)
Init ==
    /\ mapId \in MapIds
    /\ tiles = MapTiles(mapId)
    /\ capitals = MapCapitals(mapId)
    /\ playerCount = MapPlayerCount(mapId)
    /\ currentPlayer = 1
    /\ turn = 1
    /\ round = 1
    /\ winner = NoWinner
    /\ gameOver = FALSE
    /\ playerTiles = initPlayerTiles(MapTiles(mapId), MapPlayerCount(mapId))
    /\ sim = deepCloneState(
               [tiles |-> MapTiles(mapId), capitals |-> MapCapitals(mapId),
                playerCount |-> MapPlayerCount(mapId), currentPlayer |-> 1,
                turn |-> 1, round |-> 1, winner |-> NoWinner, gameOver |-> FALSE,
                playerTiles |-> initPlayerTiles(MapTiles(mapId), MapPlayerCount(mapId))])
    /\ lastCall = Constructed
    /\ sent = [p \in Pos |-> 0]
    /\ movesMade = 0
    /\ decision = NoDecision
    /\ ui = Mounted

\* engine.makeMove(fromX, fromY, toX, toY, moveType); the search AI's copy
\* is given the same move whenever the engine accepts it
CallMakeMove(fromX, fromY, toX, toY, moveType) ==
    LET r == makeMove(Engine, fromX, fromY, toX, toY, moveType)
        from == << fromX, fromY >>
        to == << toX, toY >>
    IN /\ SetEngine(r.state)
       /\ mapId' = mapId
       /\ decision' = NoDecision
       /\ movesMade' = IF r.ret THEN movesMade + 1 ELSE movesMade
       /\ IF r.ret
          THEN /\ lastCall' =
                    [op |-> "makeMove", ret |-> TRUE, fromX |-> fromX, fromY |-> fromY,
                     toX |-> toX, toY |-> toY, moveType |-> moveType,
                     moveUnits |-> moveUnitsOf(moveType, tiles[from].units),
                     mover |-> currentPlayer,
                     fromTile |-> tiles[from], toTile |-> tiles[to]]
               /\ sim' = applyMove(sim,
                           [fromX |-> fromX, fromY |-> fromY, toX |-> toX,
                            toY |-> toY, moveType |-> moveType], currentPlayer)
               /\ sent' = IF tiles[to].owner = NEUTRAL /\ tiles[to].type = STRONGHOLD
                          THEN [sent EXCEPT ![to] = @ + moveUnitsOf(moveType, tiles[from].units)]
                          ELSE sent
          ELSE /\ lastCall' = Rejected
               /\ UNCHANGED << sim, sent >>

\* engine.nextTurn(); the search AI takes its copy afresh at each turn
CallNextTurn ==
    /\ SetEngine(nextTurn(Engine))
    /\ sim' = deepCloneState(nextTurn(Engine))
    /\ lastCall' = TurnCall
    /\ decision' = NoDecision
    /\ UNCHANGED << sent, movesMade, mapId >>

\* a game of a few moves in its first turns
MakeMove(fromX, fromY, toX, toY, moveType) ==
    /\ movesMade < MaxMoves
    /\ CallMakeMove(fromX, fromY, toX, toY, moveType)
    /\ UNCHANGED ui

NextTurn ==
    /\ turn < MaxTurn \/ currentPlayer < playerCount \/ gameOver
    /\ CallNextTurn
    /\ UNCHANGED ui

Next ==
    \/ \E from \in Sources, d \in Deltas, moveType \in MoveTypes :
         MakeMove(from[1], from[2], from[1] + d[1], from[2] + d[2], moveType)
    \/ NextTurn

Spec == Init /\ [][Next]_vars

\* a long game: the players pass until turn MovesFromTurn, then make a few
\* moves around the start of the next round
LongMove(fromX, fromY, toX, toY, moveType) ==
    /\ movesMade < MaxLongMoves
    /\ turn >= MovesFromTurn
    /\ CallMakeMove(fromX, fromY, toX, toY, moveType)
    /\ UNCHANGED ui

LongTurn ==
    /\ turn < MaxLongTurn \/ currentPlayer < playerCount \/ gameOver
    /\ CallNextTurn
    /\ UNCHANGED ui

LongNext ==
    \/ \E from \in Pos, d \in Deltas, moveType \in MoveTypes :
         LongMove(from[1], from[2], from[1] + d[1], from[2] + d[2], moveType)
    \/ LongTurn

SpecLong == Init /\ [][LongNext]_vars

\* ai.getDecision(engine.getState()) for the player to move, asked once in
\* each position: getState hands out the engine's own map and index, so what
\* the call does to the state it was given, it does to the engine
GetDecision ==
    /\ decision = NoDecision
    /\ \E ai \in AIConfigs(currentPlayer) :
      \E out \in getDecision(Engine, ai) :
        /\ SetEngine(out.search.input)
        /\ decision' = [op |-> "getDecision", ai |-> ai, ret |-> out.ret,
                        raised |-> out.raised, fellBack |-> out.fellBack,
                        thrown |-> out.search.thrown, score |-> out.search.score,
                        move |-> out.search.move, n |-> out.search.n.evals,
                        sims |-> out.search.n.sims, deep |-> out.search.n.deep,
                        plies |-> out.search.n.plies,
                        made |-> out.search.n.made]
        /\ UNCHANGED << sim, lastCall, sent, movesMade, mapId, ui >>

\* weighted sums of the four heuristic terms tried on evaluate: the clamp's
\* limits, values beyond them and zero
EvaluateTotals == {-10001, -10000, 0, 10000, 10001}

\* states handed to evaluate: the present one, and the present one decided
\* for each player or for nobody
EvaluateInputs ==
    {Engine} \cup {[Engine EXCEPT !.gameOver = TRUE, !.winner = w] :
                       w \in {NoWinner} \cup (1 .. playerCount)}

\* ai.evaluate(state) for the search AI of any player
CallEvaluate ==
    /\ decision = NoDecision
    /\ \E playerId \in 1 .. playerCount, total \in EvaluateTotals,
          g \in EvaluateInputs :
         \E ai \in {[playerId |-> playerId, maxDepth |-> 1, maxBranches |-> 1,
                      scores |-> [d \in Digests |-> total], throwAt |-> 0]} :
           decision' = [op |-> "evaluate", ai |-> ai, input |-> g,
                        total |-> total, ret |-> evaluate(g, ai)]
    /\ UNCHANGED << gameVars, sim, lastCall, sent, movesMade, mapId, ui >>

\* state g with every tile of player me's opponents turned neutral and
\* taken out of the index: nobody but me owns a tile
Alone(g, me) ==
    [g EXCEPT !.tiles = [c \in Pos |->
                           IF g.tiles[c].owner \notin {me, NEUTRAL}
                           THEN [g.tiles[c] EXCEPT !.owner = NEUTRAL]
                           ELSE g.tiles[c]],
              !.playerTiles = [p \in DOMAIN g.playerTiles |->
                                 IF p = me THEN g.playerTiles[p] ELSE << >>]]

\* ai.getNextEnemyPlayer(state) for the search AI of any player, on the
\* present state and on the present state with that player alone
CallGetNextEnemyPlayer ==
    /\ decision = NoDecision
    /\ \E playerId \in 1 .. playerCount :
         \E g \in {Engine, Alone(Engine, playerId)} :
           \E ai \in {MinimaxAI(playerId, [maxDepth |-> 0, maxBranches |-> 0,
                                           scores |-> [d \in Digests |-> 0],
                                           throwAt |-> 0])} :
             decision' = [op |-> "getNextEnemyPlayer", ai |-> ai, input |-> g,
                          ret |-> getNextEnemyPlayer(g, ai)]
    /\ UNCHANGED << gameVars, sim, lastCall, sent, movesMade, mapId, ui >>

\* a short game in which the search AI is asked for decisions
AIMove(fromX, fromY, toX, toY, moveType) ==
    /\ movesMade < MaxAIMoves
    /\ CallMakeMove(fromX, fromY, toX, toY, moveType)
    /\ UNCHANGED ui

AITurn ==
    /\ turn < MaxAITurn \/ currentPlayer < playerCount \/ gameOver
    /\ CallNextTurn
    /\ UNCHANGED ui

AINext ==
    \/ \E from \in Pos, d \in Deltas, moveType \in MoveTypes :
         AIMove(from[1], from[2], from[1] + d[1], from[2] + d[2], moveType)
    \/ AITurn
    \/ GetDecision
    \/ CallEvaluate
    \/ CallGetNextEnemyPlayer

SpecAI == Init /\ [][AINext]_vars

\* ------------------------------------------------------- scenario boards
\* Maps of two players handed to the constructor to exercise the search
\* AI's helpers: player 1's capital in one corner, player 2's capital in the
\* opposite corner, every other cell one of BoardKinds. A stack of 70 is a
\* large army, one of 4 is not.
BoardKinds ==
    { Tile(BLANK, 1, 4), Tile(BLANK, 1, 70), Tile(STRONGHOLD, 2, 2),
      Tile(BLANK, 2, 2), LockedStronghold(3), Tile(BLANK, NEUTRAL, 0),
      Tile(MOUNTAIN, NEUTRAL, 0) }

BoardCapitals ==
    << [x |-> 0, y |-> 0, playerId |-> 1],
       [x |-> Width - 1, y |-> Height - 1, playerId |-> 2] >>

BoardFree == Pos \ { << 0, 0 >>, << Width - 1, Height - 1 >> }

Boards ==
    { [p \in Pos |-> IF p = << 0, 0 >> THEN Tile(CAPITAL, 1, 4)
                     ELSE IF p = << Width - 1, Height - 1 >> THEN Tile(CAPITAL, 2, 2)
                     ELSE free[p]] : free \in [BoardFree -> BoardKinds] }

\* new GameEngine(board, 2)
InitBoard ==
    /\ mapId = 0
    /\ tiles \in Boards
    /\ capitals = BoardCapitals
    /\ playerCount = Len(BoardCapitals)
    /\ currentPlayer = 1
    /\ turn = 1
    /\ round = 1
    /\ winner = NoWinner
    /\ gameOver = FALSE
    /\ playerTiles = initPlayerTiles(tiles, Len(BoardCapitals))
    /\ sim = deepCloneState(
               [tiles |-> tiles, capitals |-> BoardCapitals,
                playerCount |-> Len(BoardCapitals), currentPlayer |-> 1,
                turn |-> 1, round |-> 1, winner |-> NoWinner, gameOver |-> FALSE,
                playerTiles |-> initPlayerTiles(tiles, Len(BoardCapitals))])
    /\ lastCall = Constructed
    /\ sent = [p \in Pos |-> 0]
    /\ movesMade = 0
    /\ decision = NoDecision
    /\ ui = Mounted

\* this.limitMoves(this.getAllPossibleMoves(state, playerId), state,
\* playerId, maxBranches), as minimax calls it
CallLimitMoves ==
    /\ decision = NoDecision
    /\ \E playerId \in 1 .. playerCount, maxBranches \in BranchCaps :
         decision' = [op |-> "limitMoves", playerId |-> playerId,
                      maxBranches |-> maxBranches,
                      moves |-> getAllPossibleMoves(Engine, playerId),
                      ret |-> limitMoves(getAllPossibleMoves(Engine, playerId),
                                         Engine, playerId, maxBranches)]
    /\ UNCHANGED << gameVars, sim, lastCall, sent, movesMade, mapId, ui >>

\* this.scoreMove(move, state, playerId) for every candidate move, as the
\* map over the moves in limitMoves calls it
CallScoreMove ==
    /\ decision = NoDecision
    /\ \E playerId \in 1 .. playerCount :
         \E moves \in {getAllPossibleMoves(Engine, playerId)} :
           decision' = [op |-> "scoreMove", playerId |-> playerId, moves |-> moves,
                        ret |-> [i \in 1 .. Len(moves) |->
                                   scoreMove(moves[i], Engine, playerId)]]
    /\ UNCHANGED << gameVars, sim, lastCall, sent, movesMade, mapId, ui >>

\* this.simulateMove(state, move, playerId) for a candidate move, as the
\* loops of minimax call it
CallSimulateMove ==
    /\ decision = NoDecision
    /\ \E playerId \in 1 .. playerCount :
         \E moves \in {getAllPossibleMoves(Engine, playerId)} :
           \E i \in 1 .. Len(moves) :
             decision' = [op |-> "simulateMove", playerId |-> playerId,
                          move |-> moves[i],
                          ret |-> simulateMove(Engine, moves[i], playerId)]
    /\ UNCHANGED << gameVars, sim, lastCall, sent, movesMade, mapId, ui >>

\* the parameters calculateDefenseNeed falls back to without evaluationParams
DefenseCapitalBonus == 200

DefenseStrongholdBonus == 80

DefenseSupportBonus == 300

ThreatRadius == 3

StrongTileMinUnits == 3

StrongTilesConsidered == 5

\* the marker of "no tile found" (null)
NoPosition == << -1, -1 >>

Manhattan(a, b) == Abs(a[1] - b[1]) + Abs(a[2] - b[2])

\* MinimaxAI.buildContext: the lists calculateDefenseNeed reads, as positions
buildContext(g, myId) ==
    LET ownTiles == IF myId \in DOMAIN g.playerTiles
                    THEN g.playerTiles[myId] ELSE << >>
        threatEnemyId == getMostThreateningEnemy(g, myId)
    IN [ownTiles |-> ownTiles,
        ownImportant |-> SelectSeq(ownTiles,
                           LAMBDA c : g.tiles[c].type \in {CAPITAL, STRONGHOLD}),
        enemyTiles |-> IF threatEnemyId # 0 THEN g.playerTiles[threatEnemyId]
                       ELSE << >>]

\* MinimaxAI.findThreatNear: the first of the closest enemy tiles within 3
findThreatNear(enemyTiles, target) ==
    LET near == {i \in 1 .. Len(enemyTiles) :
                   Manhattan(enemyTiles[i], target) <= ThreatRadius}
    IN IF near = {} THEN NoPosition
       ELSE enemyTiles[CHOOSE i \in near :
              \A j \in near :
                 \/ Manhattan(enemyTiles[i], target) < Manhattan(enemyTiles[j], target)
                 \/ (Manhattan(enemyTiles[i], target) = Manhattan(enemyTiles[j], target)
                     /\ i <= j)]

\* MinimaxAI.findClosestStrongTile: of the five strongest tiles holding at
\* least 3 units, the first closest to the target
findClosestStrongTile(g, ownTiles, target) ==
    IF Len(ownTiles) = 0 THEN NoPosition
    ELSE
      LET strong == SelectSeq(ownTiles, LAMBDA c : g.tiles[c].units >= StrongTileMinUnits)
          before(i, j) == \/ g.tiles[strong[i]].units > g.tiles[strong[j]].units
                          \/ (g.tiles[strong[i]].units = g.tiles[strong[j]].units /\ i < j)
          at(k) == CHOOSE i \in 1 .. Len(strong) :
                     Cardinality({j \in 1 .. Len(strong) : before(j, i)}) = k - 1
          top == 1 .. Min(Len(strong), StrongTilesConsidered)
      IN IF Len(strong) = 0 THEN ownTiles[1]
         ELSE strong[at(CHOOSE k \in top :
                \A l \in top :
                   \/ Manhattan(strong[at(k)], target) < Manhattan(strong[at(l)], target)
                   \/ (Manhattan(strong[at(k)], target) = Manhattan(strong[at(l)], target)
                       /\ k <= l))]

\* the own tiles calculateDefenseNeed counts as large armies
largeArmyTiles(g, ownTiles) ==
    LET sum == SumUnitsAt(g, ownTiles, 1)
        count == Max(Len(ownTiles), 1)
    IN SelectSeq(ownTiles,
         LAMBDA c : /\ g.tiles[c].units * 2 * count >= 3 * sum
                    /\ g.tiles[c].units >= LargeArmyMinUnits)

\* one pass of the loop of calculateDefenseNeed: what an own important tile adds
defenseScoreOf(g, context, target) ==
    LET threat == findThreatNear(context.enemyTiles, target)
        threatLevel == g.tiles[threat].units
        importanceBonus == IF g.tiles[target].type = CAPITAL
                           THEN DefenseCapitalBonus ELSE DefenseStrongholdBonus
        nearestLargeArmy ==
            findClosestStrongTile(g, largeArmyTiles(g, context.ownTiles), target)
    IN IF threat = NoPosition
       THEN [target |-> target, threatened |-> FALSE, threatLevel |-> 0,
             importanceBonus |-> importanceBonus, defenseScore |-> 0]
       ELSE [target |-> target, threatened |-> TRUE, threatLevel |-> threatLevel,
             importanceBonus |-> importanceBonus,
             defenseScore |->
               IF /\ nearestLargeArmy # NoPosition
                  /\ Manhattan(target, nearestLargeArmy) <= ThreatRadius
                  /\ g.tiles[nearestLargeArmy].units >= threatLevel
               THEN importanceBonus + threatLevel * 10 + DefenseSupportBonus
               ELSE importanceBonus + threatLevel * 10]

RECURSIVE SumDefenseScores(_, _)
SumDefenseScores(parts, i) ==
    IF i > Len(parts) THEN 0
    ELSE parts[i].defenseScore + SumDefenseScores(parts, i + 1)

\* MinimaxAI.calculateDefenseNeed, with what each own important tile added
calculateDefenseNeed(g, context) ==
    IF Len(context.ownImportant) = 0 \/ Len(context.enemyTiles) = 0
    THEN [ret |-> 0, parts |-> << >>]
    ELSE LET parts == [i \in 1 .. Len(context.ownImportant) |->
                         defenseScoreOf(g, context, context.ownImportant[i])]
         IN [ret |-> SumDefenseScores(parts, 1), parts |-> parts]

\* a call of calculateDefenseNeed on the context of a player of the board
CallCalculateDefenseNeed ==
    /\ decision = NoDecision
    /\ \E playerId \in 1 .. playerCount :
         \E out \in {calculateDefenseNeed(Engine, buildContext(Engine, playerId))} :
           decision' = [op |-> "calculateDefenseNeed", playerId |-> playerId,
                        ret |-> out.ret, parts |-> out.parts]
    /\ UNCHANGED << gameVars, sim, lastCall, sent, movesMade, mapId, ui >>

BoardNext ==
    \/ CallLimitMoves
    \/ CallScoreMove
    \/ CallSimulateMove
    \/ CallCalculateDefenseNeed

SpecBoard == InitBoard /\ [][BoardNext]_vars

\* ------------------------------------------ src/src/game/GameEngine.js
\* The engine revision kept in src/src/game/GameEngine.js. Its isValidMove,
\* updateTileOwnership, checkWinCondition and getRemainingPlayers read as the
\* operators of the same names above; makeMove and takeoverPlayerTiles differ.
MaxLegacyMoves == 1

\* units of a tile taken over by src/src/game/GameEngine.js: floor(units / 2) + 1
legacyTakeoverUnits(units) == units \div 2 + 1

\* the loop of takeoverPlayerTiles of src/src/game/GameEngine.js
RECURSIVE legacyTakeoverLoop(_, _, _, _, _)
legacyTakeoverLoop(s, tilesToTakeover, i, defeatedPlayerId, conquerorId) ==
    IF i > Len(tilesToTakeover) THEN s
    ELSE LET c == tilesToTakeover[i]
             tile == s.tiles[c]
         IN IF tile.owner = defeatedPlayerId
            THEN LET taken ==
                       [tile EXCEPT
                          !.owner = conquerorId,
                          !.units = legacyTakeoverUnits(tile.units),
                          !.type = IF tile.type = CAPITAL THEN STRONGHOLD ELSE tile.type]
                     s1 == [s EXCEPT !.tiles[c] = taken]
                     s2 == updateTileOwnership(s1, c[1], c[2], defeatedPlayerId, conquerorId)
                 IN legacyTakeoverLoop(s2, tilesToTakeover, i + 1, defeatedPlayerId, conquerorId)
            ELSE legacyTakeoverLoop(s, tilesToTakeover, i + 1, defeatedPlayerId, conquerorId)

\* takeoverPlayerTiles of src/src/game/GameEngine.js
legacyTakeoverPlayerTiles(s, defeatedPlayerId, conquerorId) ==
    legacyTakeoverLoop(s, s.playerTiles[defeatedPlayerId], 1, defeatedPlayerId, conquerorId)

\* the enemy branch of makeMove of src/src/game/GameEngine.js
legacyResolveEnemy(s, toX, toY, moveUnits) ==
    LET to == << toX, toY >>
        toTile == s.tiles[to]
        oldToOwner == toTile.owner
        result == moveUnits - toTile.units
        wasCapital == toTile.type = CAPITAL
        wasStronghold == toTile.type = STRONGHOLD
        isSpecialTile == wasCapital \/ wasStronghold
    IN IF isSpecialTile /\ result < 1
       THEN [s EXCEPT !.tiles[to].units = Max(toTile.units - moveUnits, 0)]
       ELSE IF result >= 0
       THEN LET s1 == [s EXCEPT !.tiles[to].owner = s.currentPlayer,
                                !.tiles[to].units = result]
                s2 == IF wasCapital /\ oldToOwner # 0
                      THEN legacyTakeoverPlayerTiles(
                             [s1 EXCEPT !.tiles[to].type = STRONGHOLD],
                             oldToOwner, s.currentPlayer)
                      ELSE s1
            IN updateTileOwnership(s2, toX, toY, oldToOwner, s.currentPlayer)
       ELSE [s EXCEPT !.tiles[to].units = -result]

\* makeMove of src/src/game/GameEngine.js
legacyMakeMove(s, fromX, fromY, toX, toY, moveType) ==
    IF s.gameOver THEN [ret |-> FALSE, state |-> s]
    ELSE IF ~isValidMove(s, fromX, fromY, toX, toY) THEN [ret |-> FALSE, state |-> s]
    ELSE LET from == << fromX, fromY >>
             to == << toX, toY >>
             moveUnits == moveUnitsOf(moveType, s.tiles[from].units)
         IN IF moveUnits < 1 THEN [ret |-> FALSE, state |-> s]
            ELSE LET s1 == [s EXCEPT !.tiles[from].units = Max(@ - moveUnits, 1)]
                     s2 == IF s1.tiles[to].owner = NEUTRAL
                           THEN updateTileOwnership(
                                  [s1 EXCEPT !.tiles[to].owner = s.currentPlayer,
                                             !.tiles[to].units = moveUnits],
                                  toX, toY, NEUTRAL, s.currentPlayer)
                           ELSE IF s1.tiles[to].owner = s.currentPlayer
                           THEN [s1 EXCEPT !.tiles[to].units = @ + moveUnits]
                           ELSE legacyResolveEnemy(s1, toX, toY, moveUnits)
                 IN [ret |-> TRUE, state |-> checkWinCondition(s2)]

\* a call of makeMove on the engine of src/src/game/GameEngine.js
CallLegacyMakeMove ==
    /\ movesMade < MaxLegacyMoves
    /\ \E from \in Pos, d \in Deltas, moveType \in MoveTypes :
         \E r \in {legacyMakeMove(Engine, from[1], from[2],
                                  from[1] + d[1], from[2] + d[2], moveType)} :
           /\ r.ret
           /\ SetEngine(r.state)
           /\ lastCall' =
                [op |-> "legacyMakeMove", ret |-> TRUE,
                 fromX |-> from[1], fromY |-> from[2],
                 toX |-> from[1] + d[1], toY |-> from[2] + d[2],
                 moveType |-> moveType,
                 moveUnits |-> moveUnitsOf(moveType, tiles[from].units),
                 mover |-> currentPlayer,
                 fromTile |-> tiles[from],
                 toTile |-> tiles[<< from[1] + d[1], from[2] + d[2] >>]]
           /\ movesMade' = movesMade + 1
    /\ UNCHANGED << sim, sent, mapId, decision, ui >>

LegacyNext == CallLegacyMakeMove

SpecLegacy == InitBoard /\ [][LegacyNext]_vars

\* ------------------------------------------------------------- RandomAI
\* The random player asked for a decision on a scenario board, at the start
\* and after the engine accepted moves of the current player.
MaxRandomMoves == 1

\* randomAI.getDecision(gameState) on the engine's state
CallRandomDecision ==
    /\ decision = NoDecision
    /\ \E r \in randomDecisions(Engine) :
         decision' = [op |-> "RandomAI.getDecision", ret |-> r]
    /\ UNCHANGED << gameVars, sim, lastCall, sent, movesMade, mapId, ui >>

RandomMove(fromX, fromY, toX, toY, moveType) ==
    /\ movesMade < MaxRandomMoves
    /\ makeMove(Engine, fromX, fromY, toX, toY, moveType).ret
    /\ CallMakeMove(fromX, fromY, toX, toY, moveType)
    /\ UNCHANGED ui

RandomNext ==
    \/ \E from \in Pos, d \in Deltas, moveType \in MoveTypes :
         RandomMove(from[1], from[2], from[1] + d[1], from[2] + d[2], moveType)
    \/ CallRandomDecision

SpecRandom == InitBoard /\ [][RandomNext]_vars

\* ----------------------------------------------------------- GameCanvas
\* The event handlers of GameCanvas on the store's engine. The browser
\* delivers mousedown, mouseup and click of one gesture in this order, the
\* click where the button was released; a callback of setTimeout(nextTurn,
\* 100) runs at any later point between two handlers.
MaxGestures == 3

\* what getTileFromEvent returns: a cell, or null beside the grid
EventTiles == Pos \cup {NoSelection}

\* the test both handlers make before taking a tile as the source
OwnMovable(tile) ==
    /\ tile # NoSelection
    /\ tiles[tile].owner = currentPlayer
    /\ tiles[tile].units >= 2

\* the store's makeMove called by a handler, and what the handler does with
\* its result: on success clear the selection and schedule nextTurn
CanvasMove(from, to, moveType, next) ==
    /\ CallMakeMove(from[1], from[2], to[1], to[2], moveType)
    /\ ui' = IF makeMove(Engine, from[1], from[2], to[1], to[2], moveType).ret
             THEN [next EXCEPT !.selectedTile = NoSelection,
                               !.timers = @ + 1,
                               !.movedSinceTurn = @ + 1]
             ELSE next

\* handleMouseDown
HandleMouseDown(tile) ==
    /\ ui.gesture = "idle"
    /\ ui.gestures < MaxGestures
    /\ ui' = [ui EXCEPT !.gesture = "down",
                        !.gestures = @ + 1,
                        !.mouseDownTile = IF ~gameOver /\ OwnMovable(tile)
                                          THEN tile ELSE @]
    /\ UNCHANGED << gameVars, sim, lastCall, sent, movesMade, mapId, decision >>

\* handleMouseUp
HandleMouseUp(tile) ==
    /\ ui.gesture = "down"
    /\ IF gameOver \/ ui.mouseDownTile = NoSelection
       THEN /\ ui' = [ui EXCEPT !.gesture = "up", !.at = tile,
                                !.justDragged = FALSE,
                                !.mouseDownTile = NoSelection]
            /\ UNCHANGED << gameVars, sim, lastCall, sent, movesMade, mapId, decision >>
       ELSE IF tile # NoSelection /\ tile # ui.mouseDownTile
       THEN CanvasMove(ui.mouseDownTile, tile, "max",
                       [ui EXCEPT !.gesture = "up", !.at = tile,
                                  !.justDragged = TRUE,
                                  !.mouseDownTile = NoSelection])
       ELSE /\ ui' = [ui EXCEPT !.gesture = "up", !.at = tile,
                                !.justDragged = FALSE,
                                !.mouseDownTile = NoSelection]
            /\ UNCHANGED << gameVars, sim, lastCall, sent, movesMade, mapId, decision >>

\* handleClick
HandleClick ==
    /\ ui.gesture = "up"
    /\ IF ui.justDragged
       THEN /\ ui' = [ui EXCEPT !.gesture = "idle", !.justDragged = FALSE]
            /\ UNCHANGED << gameVars, sim, lastCall, sent, movesMade, mapId, decision >>
       ELSE IF gameOver
       THEN /\ ui' = [ui EXCEPT !.gesture = "idle"]
            /\ UNCHANGED << gameVars, sim, lastCall, sent, movesMade, mapId, decision >>
       ELSE IF ui.at = NoSelection
       THEN /\ ui' = [ui EXCEPT !.gesture = "idle", !.selectedTile = NoSelection]
            /\ UNCHANGED << gameVars, sim, lastCall, sent, movesMade, mapId, decision >>
       ELSE IF ui.selectedTile # NoSelection /\ ui.selectedTile # ui.at
       THEN CanvasMove(ui.selectedTile, ui.at, "half",
                       [ui EXCEPT !.gesture = "idle", !.selectedTile = NoSelection])
       ELSE /\ ui' = [ui EXCEPT !.gesture = "idle",
                                !.selectedTile = IF OwnMovable(ui.at) THEN ui.at
                                                 ELSE NoSelection]
            /\ UNCHANGED << gameVars, sim, lastCall, sent, movesMade, mapId, decision >>

\* a callback of setTimeout(() => nextTurn(), 100) runs
TimerFires ==
    /\ ui.timers > 0
    /\ CallNextTurn
    /\ ui' = [ui EXCEPT !.timers = @ - 1, !.movedSinceTurn = 0]

CanvasNext ==
    \/ \E tile \in EventTiles : HandleMouseDown(tile)
    \/ \E tile \in EventTiles : HandleMouseUp(tile)
    \/ HandleClick
    \/ TimerFires

SpecCanvas == Init /\ [][CanvasNext]_vars

\* ================================================================ claims
OwnedBy(p) == {c \in Pos : tiles[c].owner = p}

IndexSet(p) == {playerTiles[p][i] : i \in 1 .. Len(playerTiles[p])}

RECURSIVE SumIndexLengths(_)
SumIndexLengths(p) ==
    IF p = 0 THEN 0 ELSE Len(playerTiles[p]) + SumIndexLengths(p - 1)

LastMoveAccepted == lastCall.op = "makeMove" /\ lastCall.ret

LastFrom == << lastCall.fromX, lastCall.fromY >>

LastTo == << lastCall.toX, lastCall.toY >>

\* C1: in every reachable state, for each player p in 1..playerCount the
\* index playerTiles[p] holds exactly the coordinates whose tile has owner p,
\* each once; so the index lengths sum to the number of owned tiles.
C1_IndexMatchesGrid ==
    /\ DOMAIN playerTiles = 1 .. playerCount
    /\ \A p \in 1 .. playerCount :
         /\ IndexSet(p) = OwnedBy(p)
         /\ Len(playerTiles[p]) = Cardinality(OwnedBy(p))
    /\ SumIndexLengths(playerCount) = Cardinality({c \in Pos : tiles[c].owner > 0})

\* a capital was just captured and the defeated player's other tiles went
\* to the conqueror with it
C1_Witness ==
    /\ LastMoveAccepted
    /\ lastCall.toTile.type = CAPITAL
    /\ lastCall.toTile.owner \notin {NEUTRAL, lastCall.mover}
    /\ tiles[LastTo].owner = lastCall.mover
    /\ Len(playerTiles[lastCall.toTile.owner]) = 0
    /\ Len(playerTiles[lastCall.mover]) >= 3

\* the validation failures the claim lists, stated on the call's arguments
ListedInvalid(fromX, fromY, toX, toY) ==
    \/ fromX < 0 \/ fromX >= Width \/ fromY < 0 \/ fromY >= Height
    \/ toX < 0 \/ toX >= Width \/ toY < 0 \/ toY >= Height
    \/ tiles[<< fromX, fromY >>].owner # currentPlayer
    \/ tiles[<< fromX, fromY >>].units < 2
    \/ tiles[<< toX, toY >>].type = MOUNTAIN
    \/ Abs(fromX - toX) + Abs(fromY - toY) # 1

\* C2: a makeMove call whose arguments fail any listed validation (source or
\* target off the grid, source not owned by currentPlayer, source with fewer
\* than 2 units, target a Mountain, Manhattan distance not 1) returns false
\* and leaves every field of the game state unchanged.
C2_InvalidMoveIsNoOp ==
    [][ \/ (lastCall' = Rejected /\ UNCHANGED gameVars)
        \/ \A from \in Sources, d \in Deltas, moveType \in MoveTypes :
             ListedInvalid(from[1], from[2], from[1] + d[1], from[2] + d[2])
               => ~MakeMove(from[1], from[2], from[1] + d[1], from[2] + d[2], moveType)
      ]_vars

\* a call was rejected in the middle of a game that is not over
C2_Witness ==
    /\ lastCall = Rejected
    /\ ~gameOver
    /\ movesMade >= 1

\* what the claim compares between the engine and the search AI's copy
View(g) ==
    [tiles |-> g.tiles,
     index |-> [p \in DOMAIN g.playerTiles |->
                  {g.playerTiles[p][i] : i \in 1 .. Len(g.playerTiles[p])}],
     capitals |-> g.capitals,
     gameOver |-> g.gameOver,
     winner |-> g.winner]

\* C3: after every move of a sequence of valid moves applied both by
\* GameEngine.makeMove and by MinimaxAI.applyMove to a copy of the same
\* starting state, the two states have identical tile grids, playerTiles
\* sets, capitals registry and gameOver/winner.
C3_SimulationParity ==
    LastMoveAccepted => View(sim) = View(Engine)

\* units the claims say a move sends: floor(u/2) for 'half', u - 1 for 'max'
SentOf(moveType, units) == IF moveType = "half" THEN units \div 2 ELSE units - 1

UnitsSent == SentOf(lastCall.moveType, lastCall.fromTile.units)

LastWasAttack ==
    /\ LastMoveAccepted
    /\ lastCall.toTile.owner \notin {NEUTRAL, lastCall.mover}

LastCapturedCapital ==
    /\ LastWasAttack
    /\ lastCall.toTile.type = CAPITAL
    /\ UnitsSent - lastCall.toTile.units >= 1

\* C4: a valid attack sending m units onto an enemy tile holding d units
\* captures it with m - d units when m - d >= 1, and otherwise leaves it to
\* its owner with max(0, d - m) units; the source loses exactly m units; the
\* same threshold decides the capture of a Capital.
C4_AttackOutcome ==
    LastWasAttack =>
      LET m == UnitsSent
          d == lastCall.toTile.units
      IN /\ m - d >= 1 => /\ tiles[LastTo].owner = lastCall.mover
                          /\ tiles[LastTo].units = m - d
         /\ m - d < 1 => /\ tiles[LastTo].owner = lastCall.toTile.owner
                         /\ tiles[LastTo].units = (IF d - m > 0 THEN d - m ELSE 0)
         /\ tiles[LastFrom].units = lastCall.fromTile.units - m

\* a tie on an enemy Capital: the defender keeps it with 0 units
C4_Witness ==
    /\ LastWasAttack
    /\ lastCall.toTile.type = CAPITAL
    /\ UnitsSent = lastCall.toTile.units
    /\ tiles[LastTo].owner = lastCall.toTile.owner
    /\ tiles[LastTo].units = 0

\* C5: when a move captures an enemy Capital, every other tile the defeated
\* player owned before the move belongs to the conqueror afterwards with
\* ceil(u/2) units, the defeated player owns no tile, and the tiles of third
\* players and neutral tiles are unchanged.
C5_Cascade ==
    [][ LET to == << lastCall'.toX, lastCall'.toY >>
            defeated == tiles[to].owner
            conqueror == currentPlayer
        IN (/\ lastCall'.op = "makeMove" /\ lastCall'.ret
            /\ tiles[to].type = CAPITAL
            /\ defeated \notin {NEUTRAL, conqueror}
            /\ SentOf(lastCall'.moveType,
                      tiles[<< lastCall'.fromX, lastCall'.fromY >>].units)
                 - tiles[to].units >= 1)
           => \A c \in Pos :
                /\ (tiles[c].owner = defeated /\ c # to)
                     => /\ tiles'[c].owner = conqueror
                        /\ tiles'[c].units = (tiles[c].units + 1) \div 2
                /\ tiles'[c].owner # defeated
                /\ tiles[c].owner \notin {defeated, conqueror} => tiles'[c] = tiles[c]
      ]_vars

\* a Capital was captured while its owner held another tile with an even
\* number of units and a third player held tiles
C5_Witness ==
    /\ LastCapturedCapital
    /\ playerCount = 3
    /\ \E c \in Pos \ {LastTo}, p \in 1 .. playerCount :
         /\ MapTiles(mapId)[c].owner = lastCall.toTile.owner
         /\ tiles[c].owner = lastCall.mover
         /\ movesMade = 1
         /\ MapTiles(mapId)[c].units % 2 = 0
         /\ p \notin {lastCall.mover, lastCall.toTile.owner}
         /\ Len(playerTiles[p]) > 0

\* the coordinates registered for a player in map.capitals
RegisteredIn(caps, p) ==
    {<< caps[i].x, caps[i].y >> : i \in {j \in 1 .. Len(caps) : caps[j].playerId = p}}

RegisteredAt(p) == RegisteredIn(capitals, p)

OwnsRegisteredCapital(p) == \E c \in RegisteredAt(p) : tiles[c].owner = p

CapitalOwners == {p \in 1 .. playerCount : OwnsRegisteredCapital(p)}

\* C6: with two or more players, gameOver holds exactly when exactly one
\* player owns the tile at their registered capital coordinates, and winner
\* is then that player; while two or more players own their registered
\* capital, gameOver is false and winner is null.
C6_GameOverIffOneCapitalOwner ==
    playerCount >= 2 =>
      /\ gameOver <=> Cardinality(CapitalOwners) = 1
      /\ gameOver => winner \in CapitalOwners
      /\ Cardinality(CapitalOwners) >= 2 => (~gameOver /\ winner = NoWinner)

\* a three-player game that ended: two capitals were captured
C6_Witness ==
    /\ playerCount = 3
    /\ gameOver
    /\ winner # NoWinner
    /\ Cardinality(CapitalOwners) = 1

\* strongholds the map gave a positive captureCost
LockedAtStart == {p \in Pos : MapTiles(mapId)[p].type = STRONGHOLD
                              /\ MapTiles(mapId)[p].owner = NEUTRAL
                              /\ MapTiles(mapId)[p].captureCost > 0}

\* C7: for a neutral Stronghold with initial captureCost c > 0 and the moves
\* sent into it by any players, captureCost is max(0, c - sum) and never
\* negative; while the sum is below c the stronghold stays neutral with its
\* units unchanged; the first move that brings the sum to c or more gives
\* it to that move's player with sum - c units.
C7_StrongholdUnlock ==
    \A p \in LockedAtStart :
      LET c == MapTiles(mapId)[p].captureCost
      IN /\ tiles[p].captureCost = (IF c - sent[p] > 0 THEN c - sent[p] ELSE 0)
         /\ tiles[p].captureCost >= 0
         /\ sent[p] < c => /\ tiles[p].owner = NEUTRAL
                           /\ tiles[p].units = MapTiles(mapId)[p].units
         /\ sent[p] >= c => tiles[p].owner # NEUTRAL
         /\ (LastMoveAccepted /\ LastTo = p /\ lastCall.toTile.owner = NEUTRAL)
              => /\ tiles[LastFrom].units = lastCall.fromTile.units - UnitsSent
                 /\ sent[p] >= c => /\ tiles[p].owner = lastCall.mover
                                     /\ tiles[p].units = sent[p] - c

\* a stronghold unlocked by the second of two moves, made by two different
\* players, with units left over as garrison
C7_Witness ==
    \E p \in LockedAtStart :
      /\ LastMoveAccepted /\ LastTo = p
      /\ lastCall.toTile.owner = NEUTRAL
      /\ lastCall.toTile.captureCost < MapTiles(mapId)[p].captureCost
      /\ sent[p] > MapTiles(mapId)[p].captureCost
      /\ lastCall.mover # 1
      /\ tiles[p].owner = lastCall.mover
      /\ tiles[p].units > 0

\* one Capital per living player, at the registered coordinates
OneCapitalEach ==
    /\ Len(capitals) = playerCount
    /\ \A p \in 1 .. playerCount :
         /\ Cardinality({i \in 1 .. Len(capitals) : capitals[i].playerId = p}) = 1
         /\ OwnsRegisteredCapital(p)
              => {c \in Pos : tiles[c].owner = p /\ tiles[c].type = CAPITAL} = RegisteredAt(p)

\* C8: each player who owns their registered capital owns exactly one tile
\* of type Capital, the one at their map.capitals entry; after a player
\* captures an enemy Capital their entry holds the captured coordinates and
\* their previous capital tile is a Stronghold; map.capitals keeps exactly
\* one entry per player id.
C8_OneCapitalPerPlayer ==
    /\ OneCapitalEach
    /\ [][ /\ OneCapitalEach'
           /\ LastCapturedCapital'
                => /\ RegisteredIn(capitals', lastCall'.mover) = {<< lastCall'.toX, lastCall'.toY >>}
                   /\ \A c \in RegisteredIn(capitals, lastCall'.mover) :
                        /\ c # << lastCall'.toX, lastCall'.toY >>
                        /\ tiles'[c].type = STRONGHOLD
                        /\ tiles'[c].owner = lastCall'.mover
         ]_vars

\* a player moved their capital by capturing another and the game goes on
C8_Witness ==
    /\ LastCapturedCapital
    /\ ~gameOver
    /\ RegisteredAt(lastCall.mover) = {LastTo}
    /\ tiles[LastTo].type = CAPITAL
    /\ \E c \in Pos : /\ MapTiles(mapId)[c].type = CAPITAL
                      /\ MapTiles(mapId)[c].owner = lastCall.mover
                      /\ tiles[c].type = STRONGHOLD

C10_UnitsNonNegative ==
    /\ \A c \in Pos : tiles[c].units \in Nat
    /\ LastMoveAccepted => tiles[LastFrom].units >= 1

\* a defender was left with 0 units by a failed attack while a stronghold
\* unlocked with no garrison stands at 0 units
C10_Witness ==
    /\ LastWasAttack
    /\ UnitsSent >= lastCall.toTile.units
    /\ tiles[LastTo].owner = lastCall.toTile.owner
    /\ tiles[LastTo].units = 0
    /\ \E p \in LockedAtStart : tiles[p].owner # NEUTRAL /\ tiles[p].units = 0

\* C11: a successful move from a source holding u >= 2 units sends
\* floor(u/2) units for 'half' and u - 1 for 'max', leaving u - floor(u/2)
\* respectively 1 on the source; a neutral Blank target becomes the mover's
\* with exactly the units sent, and a target the mover owns gains exactly
\* the units sent.
C11_MoveUnits ==
    LastMoveAccepted =>
      LET u == lastCall.fromTile.units
          m == IF lastCall.moveType = "half" THEN u \div 2 ELSE u - 1
      IN /\ u >= 2
         /\ lastCall.moveUnits = m
         /\ tiles[LastFrom].units = u - m
         /\ lastCall.moveType = "max" => tiles[LastFrom].units = 1
         /\ (lastCall.toTile.owner = NEUTRAL /\ lastCall.toTile.type = BLANK)
              => /\ tiles[LastTo].owner = lastCall.mover
                 /\ tiles[LastTo].units = m
                 /\ tiles[LastTo].type = BLANK
         /\ lastCall.toTile.owner = lastCall.mover
              => /\ tiles[LastTo].owner = lastCall.mover
                 /\ tiles[LastTo].units = lastCall.toTile.units + m

\* a 'half' move of an odd stack, from a tile the player took from neutral
\* Blank by an earlier move, merged into a tile the player owns
C11_Witness ==
    /\ LastMoveAccepted
    /\ lastCall.moveType = "half"
    /\ lastCall.fromTile.units % 2 = 1
    /\ lastCall.toTile.owner = lastCall.mover
    /\ MapTiles(mapId)[LastFrom].owner = NEUTRAL
    /\ MapTiles(mapId)[LastFrom].type = BLANK
    /\ tiles[LastTo].units = lastCall.toTile.units + lastCall.fromTile.units \div 2

\* the step is a nextTurn call made while the game is not over
TurnStep == lastCall'.op = "nextTurn" /\ ~gameOver

\* C12: each nextTurn call made while the game is not over sets
\* currentPlayer to (currentPlayer mod playerCount) + 1, skipping no player
\* id, eliminated players included; turn increases by exactly 1 on exactly
\* the calls where currentPlayer wraps to 1 and is unchanged on all other
\* calls; currentPlayer is always within 1..playerCount.
C12_RoundRobin ==
    /\ currentPlayer \in 1 .. playerCount
    /\ [][ /\ currentPlayer' \in 1 .. playerCount
           /\ TurnStep =>
                /\ currentPlayer' = (currentPlayer % playerCount) + 1
                /\ turn' = IF currentPlayer = playerCount THEN turn + 1 ELSE turn
                /\ playerCount' = playerCount
         ]_vars

\* the turn counter advanced as the player wrapped to 1 in a three-player
\* game that goes on with one player already eliminated
C12_Witness ==
    /\ lastCall.op = "nextTurn"
    /\ ~gameOver
    /\ playerCount = 3
    /\ currentPlayer = 1
    /\ turn = 2
    /\ \E p \in 1 .. playerCount : OwnedBy(p) = {}

RoundBoundary ==
    /\ lastCall'.op = "nextTurn"
    /\ turn' = turn + 1
    /\ (turn' - 1) % 25 = 0

Eliminated(p) == \E c \in RegisteredAt(p) : tiles[c].owner \notin {NEUTRAL, p}

\* C15: once the tile at a player's registered capital coordinates is owned
\* by another player, that player owns no tile in that state and in every
\* later state, and every makeMove issued while that player is
\* currentPlayer returns false.
C15_EliminatedStaysOut ==
    /\ \A p \in 1 .. playerCount :
         Eliminated(p) => OwnedBy(p) = {} /\ Len(playerTiles[p]) = 0
    /\ [][ /\ \A p \in 1 .. playerCount :
                Eliminated(p) => Eliminated(p)' /\ OwnedBy(p)' = {}
           /\ Eliminated(currentPlayer)
                => ~(lastCall'.op = "makeMove" /\ lastCall'.ret)
         ]_vars

\* an eliminated player had the turn in a game that goes on, and the engine
\* rejected the call
C15_Witness ==
    /\ Eliminated(currentPlayer)
    /\ OwnedBy(currentPlayer) = {}
    /\ ~gameOver
    /\ lastCall = Rejected
    /\ MapTiles(mapId)[CHOOSE c \in Pos : MapTiles(mapId)[c].owner = currentPlayer
                                          /\ MapTiles(mapId)[c].type = BLANK].units >= 2

\* the index of player p in a simulated state, as a set
SimIndex(g, p) ==
    IF p \in DOMAIN g.playerTiles
    THEN {g.playerTiles[p][i] : i \in 1 .. Len(g.playerTiles[p])}
    ELSE {}

\* C18: when MinimaxAI.applyMove resolves a successful capture of an enemy
\* Capital, every remaining tile of the defeated player goes to the
\* capturing player with ceil(units/2) units, and the simulated playerTiles
\* index is updated for each transferred tile.
C18_SimulationCascade ==
    [][ LET from == << lastCall'.fromX, lastCall'.fromY >>
            to == << lastCall'.toX, lastCall'.toY >>
            defeated == sim.tiles[to].owner
            conqueror == currentPlayer
        IN (/\ lastCall'.op = "makeMove" /\ lastCall'.ret
            /\ sim.tiles[to].type = CAPITAL
            /\ defeated \notin {NEUTRAL, conqueror}
            /\ SentOf(lastCall'.moveType, sim.tiles[from].units) - sim.tiles[to].units >= 1)
           => \A c \in Pos \ {to} :
                sim.tiles[c].owner = defeated
                  => /\ sim'.tiles[c].owner = conqueror
                     /\ sim'.tiles[c].units = (sim.tiles[c].units + 1) \div 2
                     /\ c \in SimIndex(sim', conqueror)
                     /\ c \notin SimIndex(sim', defeated)
      ]_vars

\* the moves the claim describes for player p: from a tile of p holding two
\* units or more to an in-bounds orthogonal neighbour that is no Mountain
DescribedMoves(p) ==
    {[fromX |-> from[1], fromY |-> from[2], toX |-> to[1], toY |-> to[2],
      moveType |-> moveType] :
        from \in {c \in Pos : tiles[c].owner = p /\ tiles[c].units >= 2},
        to \in {c \in Pos : tiles[c].type # MOUNTAIN},
        moveType \in {"half", "max"}}

AdjacentOnly(ms) ==
    {m \in ms : Abs(m.fromX - m.toX) + Abs(m.fromY - m.toY) = 1}

\* the calls GameEngine.isValidMove accepts when p has the turn
AcceptedMoves(p) ==
    UNION {{[fromX |-> call[1][1], fromY |-> call[1][2],
             toX |-> call[1][1] + call[2][1], toY |-> call[1][2] + call[2][2],
             moveType |-> moveType] :
               call \in {c \in Sources \X Deltas :
                            isValidMove(e, c[1][1], c[1][2],
                                        c[1][1] + c[2][1], c[1][2] + c[2][2])},
               moveType \in {"half", "max"}} :
             e \in {[Engine EXCEPT !.currentPlayer = p]}}

\* C20: for a state whose index is consistent with the grid,
\* getAllPossibleMoves(state, p) returns exactly the moves (from, to, type)
\* with from a tile of p holding units >= 2, to an in-bounds orthogonal
\* neighbour that is not a Mountain and type 'half' or 'max': exactly the
\* moves GameEngine.isValidMove accepts for p, each once with each type.
C20_MoveGeneration ==
    \A p \in 1 .. playerCount :
      \A moves \in {getAllPossibleMoves(Engine, p)} :
        \A emitted \in {{moves[i] : i \in 1 .. Len(moves)}} :
          /\ emitted = AdjacentOnly(DescribedMoves(p))
          /\ emitted = AcceptedMoves(p)
          /\ Len(moves) = Cardinality(emitted)

\* the player to move owns a tile too weak to move and a tile that can
\* move and has a Mountain beside it
C20_Witness ==
    /\ ~gameOver
    /\ \E c \in OwnedBy(currentPlayer) : tiles[c].units < 2
    /\ \E c \in OwnedBy(currentPlayer), d \in {<< 1, 0 >>, << -1, 0 >>, << 0, 1 >>, << 0, -1 >>} :
         /\ tiles[c].units >= 2
         /\ InGrid(c[1] + d[1], c[2] + d[2])
         /\ tiles[<< c[1] + d[1], c[2] + d[2] >>].type = MOUNTAIN
    /\ Len(getAllPossibleMoves(Engine, currentPlayer)) >= 4

C17_FallbackToRandom ==
    (decision.op = "getDecision" /\ (decision.thrown \/ decision.move = NoMove))
      => /\ ~decision.raised
         /\ decision.fellBack
         /\ decision.ret \in randomDecisions(Engine)
         /\ \/ decision.ret = NoMove
            \/ /\ decision.ret.moveType \in {"half", "max"}
               /\ tiles[<< decision.ret.fromX, decision.ret.fromY >>].owner = currentPlayer
               /\ isValidMove(Engine, decision.ret.fromX, decision.ret.fromY,
                              decision.ret.toX, decision.ret.toY)
         /\ (decision.ret = NoMove /\ ~gameOver)
              => \E c \in OwnedBy(currentPlayer) \cup {<< 0, 0 >>} :
                   \A d \in Deltas, moveType \in MoveTypes :
                      c \in OwnedBy(currentPlayer) =>
                        (tiles[c].units < 2
                         \/ ~isValidMove(Engine, c[1], c[2], c[1] + d[1], c[2] + d[2]))

\* evaluate threw on its second call, inside a search of depth 2, and the
\* call returned a move of the RandomAI helper
C17_Witness ==
    /\ decision.op = "getDecision"
    /\ decision.thrown
    /\ decision.ai.throwAt = 2
    /\ decision.ai.maxDepth = 2
    /\ decision.fellBack
    /\ decision.ret # NoMove

\* minimax without pruning over the same limited tree: the value of a node
\* is the evaluation of a leaf, else the maximum (minimum) of its children's
\* values, with the first move that attains it
RECURSIVE exhaustive(_, _, _, _)
RECURSIVE exhaustiveLoop(_, _, _, _, _, _, _, _, _, _)
exhaustiveLoop(g, limitedMoves, i, depth, maximizing, p, ai, bestScore, bestMove, n) ==
    IF i > Len(limitedMoves)
    THEN [score |-> bestScore, move |-> bestMove, n |-> n]
    ELSE The({exhaustiveLoop(g, limitedMoves, i + 1, depth, maximizing, p, ai,
                             best, bm, count) :
                << best, bm, count >> \in
                   {IF (maximizing /\ r.score > bestScore)
                       \/ (~maximizing /\ r.score < bestScore)
                    THEN << r.score, limitedMoves[i], n + r.n >>
                    ELSE << bestScore, bestMove, n + r.n >> :
                      r \in {exhaustive(simulateMove(g, limitedMoves[i], p),
                                        depth - 1, ~maximizing, ai)}}})

exhaustive(g, depth, maximizing, ai) ==
    IF depth = 0 \/ g.gameOver
    THEN [score |-> evaluate(g, ai), move |-> NoMove, n |-> 1]
    ELSE The({IF Len(limitedMoves) = 0
              THEN [score |-> evaluate(g, ai), move |-> NoMove, n |-> 1]
              ELSE exhaustiveLoop(g, limitedMoves, 1, depth, maximizing, p, ai,
                                  IF maximizing THEN -Infinity ELSE Infinity, NoMove, 0) :
                p \in {IF maximizing THEN ai.playerId ELSE getNextEnemyPlayer(g, ai)},
                limitedMoves \in
                   {limitMoves(getAllPossibleMoves(g, q), g, q, ai.maxBranches) :
                      q \in {IF maximizing THEN ai.playerId
                             ELSE getNextEnemyPlayer(g, ai)}}})

\* C19: for any state, depth D >= 1 and branch cap K, minimax with
\* alpha-beta pruning called with the full window returns the same root
\* score and the same root move as exhaustive minimax without pruning over
\* the same limitMoves-restricted tree, the root move being the first move
\* in limited order that attains the maximum.
C19_PruningKeepsResult ==
    (decision.op = "getDecision" /\ ~decision.thrown)
      => \A full \in {exhaustive(Engine, decision.ai.maxDepth, TRUE, decision.ai)} :
            /\ decision.score = full.score
            /\ decision.move = full.move
            /\ decision.n <= full.n

\* a search of depth 2 that cut branches off: it evaluated fewer leaves
\* than the exhaustive search, and a later root move ties with the one chosen
C19_Witness ==
    /\ decision.op = "getDecision"
    /\ ~decision.thrown
    /\ decision.ai.maxDepth = 2
    /\ decision.move # NoMove
    /\ decision.n < exhaustive(Engine, decision.ai.maxDepth, TRUE, decision.ai).n
    /\ \E m \in {getAllPossibleMoves(Engine, currentPlayer)[i] :
                   i \in 1 .. Len(getAllPossibleMoves(Engine, currentPlayer))} :
         /\ m # decision.move
         /\ exhaustive(simulateMove(Engine, m, currentPlayer), 1, FALSE,
                       decision.ai).score = decision.score

\* the source of move m is a large-army tile of player p: its units reach
\* both 30 and one and a half times the mean of p's tiles
LargeArmySource(p, m) ==
    LET units == tiles[<< m.fromX, m.fromY >>].units
    IN /\ units >= LargeArmyMinUnits
       /\ 2 * units * Max(Len(playerTiles[p]), 1)
            >= 3 * SumUnitsAt(Engine, playerTiles[p], 1)

\* twice the ordering score of move m of player p: scoreMove, multiplied by
\* 1.5 when the source is a large-army tile
OrderingScore(p, m) ==
    (IF LargeArmySource(p, m) THEN 3 ELSE 2) * scoreMove(m, Engine, p)

SeqSet(list) == {list[i] : i \in 1 .. Len(list)}

\* C21: limitMoves returns all candidate moves when there are at most K of
\* them; otherwise it returns exactly K moves, all drawn from the
\* candidates, and no discarded move has a strictly higher ordering score
\* than any kept move.
C21_LimitMovesKeepsBest ==
    decision.op = "limitMoves" =>
      IF Len(decision.moves) <= decision.maxBranches
      THEN decision.ret = decision.moves
      ELSE /\ Len(decision.ret) = decision.maxBranches
           /\ Cardinality(SeqSet(decision.ret)) = decision.maxBranches
           /\ SeqSet(decision.ret) \subseteq SeqSet(decision.moves)
           /\ \A d \in SeqSet(decision.moves) \ SeqSet(decision.ret),
                 k \in SeqSet(decision.ret) :
                 OrderingScore(decision.playerId, d)
                   <= OrderingScore(decision.playerId, k)

\* more candidates than the cap, and a move of a large army was kept ahead
\* of a discarded move that scoreMove alone ranks higher
C21_Witness ==
    /\ decision.op = "limitMoves"
    /\ Len(decision.moves) > decision.maxBranches
    /\ \E d \in SeqSet(decision.moves) \ SeqSet(decision.ret),
          k \in SeqSet(decision.ret) :
          /\ LargeArmySource(decision.playerId, k)
          /\ scoreMove(d, Engine, decision.playerId)
               > scoreMove(k, Engine, decision.playerId)

\* C22: evaluate returns +1,000,000 for a game-over state won by the
\* controlled player, -1,000,000 for one won by any other player, 0 for one
\* without a winner, and a value within [-10,000, +10,000] for every state
\* that is not game-over; so a terminal win scores strictly above, and a
\* terminal loss strictly below, every non-terminal state.
C22_EvaluateRange ==
    decision.op = "evaluate" =>
      /\ (decision.input.gameOver /\ decision.input.winner = decision.ai.playerId)
           => decision.ret = 1000000
      /\ (decision.input.gameOver /\ decision.input.winner # NoWinner
            /\ decision.input.winner # decision.ai.playerId)
           => decision.ret = -1000000
      /\ (decision.input.gameOver /\ decision.input.winner = NoWinner)
           => decision.ret = 0
      /\ ~decision.input.gameOver
           => (decision.ret >= -10000 /\ decision.ret <= 10000
               /\ decision.ret < 1000000 /\ decision.ret > -1000000)

\* evaluate was given a state that is not game-over whose weighted sum lies
\* above the clamp's upper limit
C22_Witness ==
    /\ decision.op = "evaluate"
    /\ ~decision.input.gameOver
    /\ decision.total > 10000
    /\ decision.ret = 10000

\* C23: a MinimaxAI configured with search depth 0 (options.maxDepth = 0)
\* performs no minimax search and no state simulation: getDecision returns
\* exactly what its RandomAI helper returns for the given state.
C23_DepthZeroIsRandom ==
    (decision.op = "getDecision" /\ decision.ai.options.maxDepth = 0)
      => /\ decision.n = 0
         /\ decision.fellBack
         /\ decision.ret \in randomDecisions(Engine)

\* the units move m sends, as scoreMove counts them
SentBy(m) ==
    IF m.moveType = "half" THEN tiles[<< m.fromX, m.fromY >>].units \div 2
    ELSE tiles[<< m.fromX, m.fromY >>].units - 1

TargetOf(m) == tiles[<< m.toX, m.toY >>]

EnemyTarget(p, m) == TargetOf(m).owner # p /\ TargetOf(m).owner # NEUTRAL

\* the place of move m's target in the order of the claim; 0 for a target
\* the order does not mention
TargetRank(p, m) ==
    IF EnemyTarget(p, m)
    THEN (IF TargetOf(m).type = CAPITAL THEN 5
          ELSE IF TargetOf(m).type = STRONGHOLD THEN 4 ELSE 3)
    ELSE IF TargetOf(m).owner = NEUTRAL
    THEN (IF TargetOf(m).type = STRONGHOLD THEN 2
          ELSE IF TargetOf(m).type = BLANK THEN 1 ELSE 0)
    ELSE 0

\* C24: for moves of the same player that send the same number of units
\* (and, for enemy targets, face the same number of defending units),
\* scoreMove ranks targets strictly in the order enemy Capital > enemy
\* Stronghold > any other enemy tile > neutral Stronghold > neutral Blank.
C24_TargetOrder ==
    decision.op = "scoreMove" =>
      \A i, j \in 1 .. Len(decision.moves) :
        LET a == decision.moves[i]
            b == decision.moves[j]
        IN (/\ TargetRank(decision.playerId, a) > TargetRank(decision.playerId, b)
            /\ TargetRank(decision.playerId, b) >= 1
            /\ SentBy(a) = SentBy(b)
            /\ (EnemyTarget(decision.playerId, a) /\ EnemyTarget(decision.playerId, b))
                 => TargetOf(a).units = TargetOf(b).units)
           => decision.ret[i] > decision.ret[j]

\* move m of player p captures an enemy Capital in one step
CapturesCapital(p, m) ==
    /\ EnemyTarget(p, m)
    /\ TargetOf(m).type = CAPITAL
    /\ SentBy(m) > TargetOf(m).units

\* C25: in any state where the player to move has exactly one move that
\* captures an enemy Capital in one step, the search's move score for that
\* move (scoreMove with limitMoves' large-army multiplier) is strictly higher
\* than the score of every other available move of that player that does
\* not target a Capital.
C25_CapitalCaptureFirst ==
    (decision.op = "limitMoves" /\ decision.playerId = currentPlayer) =>
      \A c \in SeqSet(decision.moves) :
        (/\ CapturesCapital(currentPlayer, c)
         /\ \A o \in SeqSet(decision.moves) \ {c} : ~CapturesCapital(currentPlayer, o))
        => \A o \in SeqSet(decision.moves) :
             TargetOf(o).type # CAPITAL
               => OrderingScore(currentPlayer, c) > OrderingScore(currentPlayer, o)

\* opponents of player me that own at least one tile of state g
LivingOpponents(g, me) ==
    {o \in (1 .. g.playerCount) \ {me} : \E c \in Pos : g.tiles[c].owner = o}

RECURSIVE UnitsOwned(_, _, _)
UnitsOwned(g, o, i) ==
    IF i > Len(ScanOrder) THEN 0
    ELSE (IF g.tiles[ScanOrder[i]].owner = o THEN g.tiles[ScanOrder[i]].units ELSE 0)
           + UnitsOwned(g, o, i + 1)

\* totalUnits * tileCount of opponent o
ThreatProduct(g, o) ==
    UnitsOwned(g, o, 1) * Cardinality({c \in Pos : g.tiles[c].owner = o})

\* capitalDistance + 1 for opponent o: the Manhattan distance between the
\* registered capital of player me and o's Capital tile, plus one; an
\* opponent that owns no Capital tile has no distance and its product is
\* not divided
ThreatDivisor(g, me, o) ==
    LET own == {c \in Pos : g.tiles[c].owner = o /\ g.tiles[c].type = CAPITAL}
        mine == {i \in 1 .. Len(g.capitals) : g.capitals[i].playerId = me}
    IN IF own = {} \/ mine = {} THEN 1
       ELSE LET c == CHOOSE c \in own : TRUE
                i == CHOOSE i \in mine : \A j \in mine : i <= j
            IN Abs(c[1] - g.capitals[i].x) + Abs(c[2] - g.capitals[i].y) + 1

\* p is the player a minimizing ply of player me's search must explore in g
MostThreatening(g, me, p) ==
    IF LivingOpponents(g, me) = {}
    THEN p = (me % g.playerCount) + 1
    ELSE /\ p \in LivingOpponents(g, me)
         /\ \A o \in LivingOpponents(g, me) :
              ThreatProduct(g, p) * ThreatDivisor(g, me, o)
                >= ThreatProduct(g, o) * ThreatDivisor(g, me, p)

\* C26: at every minimizing ply the player whose moves are explored is the
\* single opponent, among those owning at least one tile, that maximizes
\* totalUnits * tileCount / (capitalDistance + 1), capitalDistance being the
\* Manhattan distance between the controlled player's registered capital
\* and that opponent's Capital tile; no other opponent's moves are explored
\* at that ply, and if no opponent owns a tile the ply falls back to player
\* (playerId mod playerCount) + 1.
C26_MostThreateningOpponent ==
    /\ decision.op = "getDecision" =>
         \A ply \in decision.plies :
            MostThreatening(ply.state, decision.ai.playerId, ply.player)
    /\ decision.op = "getNextEnemyPlayer" =>
         MostThreatening(decision.input, decision.ai.playerId, decision.ret)

\* a search reached a minimizing ply with two living opponents of different
\* threat, the weaker one's product divided by its capital's distance
C26_Witness ==
    /\ decision.op = "getDecision"
    /\ \E ply \in decision.plies :
         \E o \in LivingOpponents(ply.state, decision.ai.playerId) :
            /\ o # ply.player
            /\ ThreatProduct(ply.state, ply.player)
                 * ThreatDivisor(ply.state, decision.ai.playerId, o)
                 > ThreatProduct(ply.state, o)
                     * ThreatDivisor(ply.state, decision.ai.playerId, ply.player)
            /\ ThreatDivisor(ply.state, decision.ai.playerId, o) > 1

\* K + K^2 + ... + K^D
RECURSIVE GeometricSum(_, _)
GeometricSum(K, D) == IF D = 0 THEN 0 ELSE K * (1 + GeometricSum(K, D - 1))

\* C27: a single getDecision call with depth D and branch cap K terminates;
\* its recursion depth never exceeds D and it performs at most
\* K + K^2 + ... + K^D simulated move applications (simulateMove calls).
C27_SearchIsBounded ==
    decision.op = "getDecision" =>
      /\ decision.deep <= decision.ai.maxDepth
      /\ decision.sims <= GeometricSum(decision.ai.maxBranches, decision.ai.maxDepth)

\* a search of depth 2 with branch cap 2 that returned after the full
\* 2 + 4 simulated moves, two levels deep
C27_Witness ==
    /\ decision.op = "getDecision"
    /\ decision.ai.maxDepth = 2
    /\ decision.ai.maxBranches = 2
    /\ ~decision.thrown
    /\ decision.deep = 2
    /\ decision.sims = 6

\* a search AI of player p, as far as evaluate needs it
EvaluatorOf(p) ==
    MinimaxAI(p, [maxDepth |-> 0, maxBranches |-> 0,
                  scores |-> [d \in Digests |-> 0], throwAt |-> 0])

\* the Rules Engine's outcome of the simulated move when its mover has the turn
EngineOutcome ==
    makeMove([Engine EXCEPT !.currentPlayer = decision.playerId],
             decision.move.fromX, decision.move.fromY,
             decision.move.toX, decision.move.toY, decision.move.moveType).state

\* C28: whenever a simulated move captures the Capital of the only other
\* living player (a state in which the Rules Engine sets gameOver with
\* winner = mover), the simulated state also has gameOver = true and winner
\* = mover, so minimax stops at that node and evaluate returns +1,000,000
\* when the mover is the controlled player and -1,000,000 when the mover is
\* the opponent.
C28_SimulatedWin ==
    (/\ decision.op = "simulateMove"
     /\ CapturesCapital(decision.playerId, decision.move)
     /\ LivingOpponents(Engine, decision.playerId) = {TargetOf(decision.move).owner}
     /\ EngineOutcome.gameOver
     /\ EngineOutcome.winner = decision.playerId)
    => /\ decision.ret.gameOver
       /\ decision.ret.winner = decision.playerId
       /\ evaluate(decision.ret, EvaluatorOf(decision.playerId)) = 1000000
       /\ \A o \in (1 .. playerCount) \ {decision.playerId} :
             evaluate(decision.ret, EvaluatorOf(o)) = -1000000

\* C29: in the engine of src/src/game/GameEngine.js, an attack on an
\* enemy-owned Blank tile whose moved units equal the defender's units
\* (result = 0) leaves the owner of the tile unchanged.
C29_LegacyTieKeepsOwner ==
    [][(/\ lastCall'.op = "legacyMakeMove"
        /\ lastCall'.toTile.type = BLANK
        /\ lastCall'.toTile.owner \notin {NEUTRAL, lastCall'.mover}
        /\ lastCall'.moveUnits = lastCall'.toTile.units)
       => tiles'[<< lastCall'.toX, lastCall'.toY >>].owner = lastCall'.toTile.owner]_vars

\* an own large-army tile within distance 3 of the target holding at least
\* the threat's units
SupportExists(p, part) ==
    \E i \in 1 .. Len(playerTiles[p]) :
       /\ tiles[playerTiles[p][i]].units * 2 * Max(Len(playerTiles[p]), 1)
             >= 3 * SumUnitsAt(Engine, playerTiles[p], 1)
       /\ tiles[playerTiles[p][i]].units >= LargeArmyMinUnits
       /\ Manhattan(playerTiles[p][i], part.target) <= ThreatRadius
       /\ tiles[playerTiles[p][i]].units >= part.threatLevel

\* C30: a threatened own important tile adds at most importanceBonus +
\* 10 x threatUnits to calculateDefenseNeed, and strictly less than that when
\* an own large-army tile within distance 3 holds at least the threat's units.
C30_DefenseNeedReducedBySupport ==
    decision.op = "calculateDefenseNeed" =>
       \A i \in 1 .. Len(decision.parts) :
          \A part \in {decision.parts[i]} :
             part.threatened =>
                /\ part.defenseScore <= part.importanceBonus + 10 * part.threatLevel
                /\ SupportExists(decision.playerId, part) =>
                      part.defenseScore < part.importanceBonus + 10 * part.threatLevel

\* what C31 compares: the tile grid, the index of every player as a set,
\* gameOver and winner
Outcome(g) ==
    [tiles |-> g.tiles,
     index |-> [p \in 1 .. g.playerCount |-> SimIndex(g, p)],
     gameOver |-> g.gameOver,
     winner |-> g.winner]

\* the move just accepted by the engine, as the record the search AI passes
LastMove ==
    [fromX |-> lastCall.fromX, fromY |-> lastCall.fromY,
     toX |-> lastCall.toX, toY |-> lastCall.toY, moveType |-> lastCall.moveType]

\* the move just accepted took an enemy Capital
LastTookEnemyCapital ==
    /\ lastCall.toTile.type = CAPITAL
    /\ lastCall.toTile.owner \notin {NEUTRAL, lastCall.mover}
    /\ lastCall.moveUnits - lastCall.toTile.units >= 1

\* C31: for every valid move of the current player that is not a successful
\* capture of an enemy Capital, MinimaxAI.applyMove on a clone of the engine's
\* state gives the same tile grid, the same playerTiles sets and the same
\* gameOver / winner as GameEngine.makeMove.
C31_ApplyMoveMatchesEngine ==
    [][(LastMoveAccepted' /\ ~LastTookEnemyCapital')
         => Outcome(applyMove(deepCloneState(Engine), LastMove', currentPlayer))
              = Outcome(Engine')]_vars

\* an enemy tile that is not a Capital was captured, and the search AI's own
\* copy, moved along by applyMove, shows the engine's outcome
C31_Witness ==
    /\ LastMoveAccepted
    /\ lastCall.toTile.owner \notin {NEUTRAL, lastCall.mover}
    /\ lastCall.toTile.type # CAPITAL
    /\ tiles[LastTo].owner = lastCall.mover
    /\ Outcome(sim) = Outcome(Engine)

\* whether GameEngine.makeMove returns true for a move on the present state
Accepts(move) ==
    makeMove(Engine, move.fromX, move.fromY, move.toX, move.toY, move.moveType).ret

\* C32: while the game is not over and the search AI plays the current
\* player, every non-null move getDecision returns on the engine's state,
\* from the search or from the random fallback, is accepted by makeMove.
C32_DecisionIsAccepted ==
    (/\ decision.op = "getDecision"
     /\ ~gameOver
     /\ decision.ai.playerId = currentPlayer
     /\ decision.ret # NoMove)
       => Accepts(decision.ret)

\* a move found by the search was returned during a game
C32_Witness ==
    /\ decision.op = "getDecision"
    /\ ~gameOver
    /\ decision.ai.playerId = currentPlayer
    /\ decision.ret # NoMove
    /\ ~decision.fellBack
    /\ movesMade >= 1

\* a move chosen by the random fallback was returned after the search raised
C32_FallbackWitness ==
    /\ decision.op = "getDecision"
    /\ ~gameOver
    /\ decision.ret # NoMove
    /\ decision.fellBack
    /\ decision.thrown

C34_GameOverIsFinal ==
    [][gameOver =>
         /\ gameOver'
         /\ gameVars' = gameVars
         /\ lastCall'.op = "makeMove" => ~lastCall'.ret]_vars

\* a makeMove call was made, and refused, on a finished game
C34_Witness ==
    /\ gameOver
    /\ lastCall = Rejected

\* a nextTurn call was made on a finished game
C34_TurnWitness ==
    /\ gameOver
    /\ lastCall = TurnCall

\* C35: a successful makeMove changes neither currentPlayer, turn nor round;
\* unless it captures an enemy Capital it changes no tile but the source
\* (units only) and the target, and no index but through the target's entry.
C35_MoveFrame ==
    [][LastMoveAccepted' =>
         /\ currentPlayer' = currentPlayer
         /\ turn' = turn
         /\ round' = round
         /\ ~LastTookEnemyCapital' =>
              /\ \A c \in Pos \ {LastFrom', LastTo'} : tiles'[c] = tiles[c]
              /\ tiles'[LastFrom'] = [tiles[LastFrom'] EXCEPT !.units = tiles'[LastFrom'].units]
              /\ \A p \in 1 .. playerCount :
                    \A i \in 1 .. Len(playerTiles'[p]) :
                       playerTiles'[p][i] # LastTo' =>
                          \E j \in 1 .. Len(playerTiles[p]) :
                             playerTiles[p][j] = playerTiles'[p][i]
              /\ \A p \in 1 .. playerCount :
                    \A j \in 1 .. Len(playerTiles[p]) :
                       playerTiles[p][j] # LastTo' =>
                          \E i \in 1 .. Len(playerTiles'[p]) :
                             playerTiles'[p][i] = playerTiles[p][j]]_vars

\* an enemy tile that is not a Capital was captured: the target and its index
\* entry changed
C35_Witness ==
    /\ LastMoveAccepted
    /\ ~LastTookEnemyCapital
    /\ lastCall.toTile.owner \notin {NEUTRAL, lastCall.mover}
    /\ tiles[LastTo].owner = lastCall.mover
    /\ LastTo \in IndexSet(lastCall.mover)

\* the tiles RandomAI may pick as a source: owned by the current player and
\* holding at least 2 units
Movable == {c \in Pos : tiles[c].owner = currentPlayer /\ tiles[c].units >= 2}

\* the in-bounds, orthogonally adjacent, non-Mountain cells of c
OpenNeighbours(c) ==
    {t \in Pos : Abs(t[1] - c[1]) + Abs(t[2] - c[2]) = 1 /\ tiles[t].type # MOUNTAIN}

\* C36: RandomAI.getDecision returns null when the current player owns no
\* tile with at least 2 units; otherwise it returns a move from such a tile to
\* an in-bounds, orthogonally adjacent, non-Mountain tile, or null, and null
\* only when a tile it can pick as source has no such neighbour.
C36_RandomDecision ==
    decision.op = "RandomAI.getDecision" =>
       IF Movable = {} THEN decision.ret = NoMove
       ELSE IF decision.ret = NoMove THEN \E c \in Movable : OpenNeighbours(c) = {}
       ELSE /\ << decision.ret.fromX, decision.ret.fromY >> \in Movable
            /\ << decision.ret.toX, decision.ret.toY >>
                  \in OpenNeighbours(<< decision.ret.fromX, decision.ret.fromY >>)
            /\ decision.ret.moveType \in MoveTypes

\* null was returned because the source picked is walled in by Mountains
C36_Witness ==
    /\ decision.op = "RandomAI.getDecision"
    /\ decision.ret = NoMove
    /\ Movable # {}

\* null was returned because no own tile holds 2 units
C36_NoSourceWitness ==
    /\ decision.op = "RandomAI.getDecision"
    /\ decision.ret = NoMove
    /\ Movable = {}

\* a move was returned
C36_MoveWitness ==
    /\ decision.op = "RandomAI.getDecision"
    /\ decision.ret # NoMove

\* C37: in GameCanvas, under every interleaving of mouse events and timer
\* callbacks, at most one makeMove succeeds between two consecutive nextTurn
\* calls.
C37_OneMovePerTurn == ui.movedSinceTurn <= 1

\* C37, its consequence: when a scheduled nextTurn runs, no other is pending,
\* so the turn passes to the next player and stops there.
C37_NoTurnSkipped ==
    [][(lastCall'.op = "nextTurn" /\ ui'.timers # ui.timers) => ui'.timers = 0]_vars

====
